---- MODULE Spec2Model ----
(***************************************************************************)
(* The comment-tree builder of livecorpus (src/livecorpus/parse.py) as a   *)
(* state machine: one entry page is a document-ordered sequence of comment *)
(* fragments; parse_entry walks it once, building LiveJournalComment       *)
(* objects (src/livecorpus/model.py), the root list, the id map and the    *)
(* thread-id set, and finally filters the roots.                           *)
(*                                                                         *)
(* Strings are sequences of one-character strings, so that the slices and  *)
(* the regular expression the code applies to attributes are computed.     *)
(* Python objects live in a heap (a sequence); references are heap         *)
(* indices, 0 is the None reference.                                       *)
(***************************************************************************)
EXTENDS Integers, Sequences, FiniteSets, TLC

\* Number of comment fragments of a document.
MaxLen == 3

\* ------------------------------------------------------------------------
\* Strings

None == <<"None">>

Digits == <<"1", "2", "3", "4", "5", "6", "7", "8", "9">>

IsDigit(ch) == \E i \in 1..Len(Digits) : Digits[i] = ch

\* The id the site gave the n-th comment of the page.
IdOf(n) == <<Digits[n]>>

\* Python's s[n:].
Drop(s, n) == IF n >= Len(s) THEN <<>> ELSE SubSeq(s, n + 1, Len(s))

\* Python's truth value of an Optional[str].
Truthy(s) == s # None /\ s # <<>>

\* 'ljcmt', the prefix of the id attribute in the inline id scheme.
LjcmtPrefix == <<"l", "j", "c", "m", "t">>

RECURSIVE LeadingDigits(_)
LeadingDigits(s) ==
    IF s = <<>> \/ ~IsDigit(Head(s)) THEN <<>>
    ELSE <<Head(s)>> \o LeadingDigits(Tail(s))

\* re.match(r't(\d+)', s): the first group, or None when there is no match.
MatchTid(s) ==
    IF s # <<>> /\ Head(s) = "t" /\ LeadingDigits(Tail(s)) # <<>>
    THEN LeadingDigits(Tail(s))
    ELSE None

\* ------------------------------------------------------------------------
\* Results of the functions that may raise

Ret(v) == [err |-> "none", val |-> v]

Raise(e) == [err |-> e, val |-> None]

\* ------------------------------------------------------------------------
\* Comment fragments (bs4 tags) and what the code reads of them
\*   tid      the data-tid attribute, or None
\*   idattr   the id attribute, or None
\*   deleted  community.is_comment_deleted(tag)
\*   zipped   community.is_comment_zipped(tag)
\*   links    the URL fragments of the anchors with text 'Parent' that point
\*            to the community's own domain, in document order
\*   style    the margin-left dimension of the style attribute, or NoMargin
\*   seemore  the data-parent attributes of the b-leaf-seemore elements
\*   div      the tag is a div (is_comment needs it)

NoMargin == -1

\* _comment_indent_from_style
comment_indent_from_style(c) ==
    IF c.style = NoMargin THEN Raise("SnowflakeError") ELSE Ret(c.style)

\* _comment_id_from_url, applied to the URL's fragment
comment_id_from_url(fragment) == Drop(fragment, 1)

\* A resolution that does not look at Parent links
ignore_parent_link(c) == Ret(None)

\* _parent_id_from_href
parent_id_from_href(c) ==
    IF c.links # <<>>
    THEN IF Len(c.links) # 1 THEN Raise("SnowflakeError")
         ELSE Ret(comment_id_from_url(c.links[1]))
    ELSE Ret(None)

\* is_comment, the local predicate of _search_parent
is_comment(c) ==
    c.div /\ (c.idattr # None \/ c.tid # None)

\* previous_siblings of fragment k, nearest first, as indices into the document
RECURSIVE previous_siblings(_, _)
previous_siblings(d, k) ==
    IF k <= 1 THEN <<>>
    ELSE (IF is_comment(d[k - 1]) THEN <<k - 1>> ELSE <<>>)
         \o previous_siblings(d, k - 1)

\* The indentation steps that count as one level.
IndentStepOld == 25

IndentStepNew == 30

\* A skip loop that stops at the sibling just before the comment
never_skip(d, indent, prev, p) == Ret(p)

\* The while loop of _search_parent: pops siblings while they are indented
\* deeper. prev is what is left of previous_siblings, p the current sibling.
RECURSIVE skip_deeper(_, _, _, _)
skip_deeper(d, indent, prev, p) ==
    LET pi == comment_indent_from_style(d[p]) IN
    IF pi.err # "none" THEN pi
    ELSE IF pi.val > indent
         THEN IF prev = <<>> THEN Raise("IndexError")
              ELSE skip_deeper(d, indent, Tail(prev), Head(prev))
         ELSE Ret(p)

\* The id read off the sibling that is the parent (lines 279-283).
id_of_previous(c) ==
    IF c.tid # None
    THEN IF MatchTid(c.tid) = None THEN Raise("AttributeError")
         ELSE Ret(MatchTid(c.tid))
    ELSE IF c.idattr = None THEN Raise("KeyError")
         ELSE Ret(Drop(c.idattr, 5))

\* _search_parent of fragment k of document d
RECURSIVE search_parent(_, _)
search_parent(d, k) ==
    LET c == d[k]
        from_href == parent_id_from_href(c)
    IN
    IF from_href.err # "none" THEN from_href
    ELSE IF Truthy(from_href.val) THEN from_href
    ELSE
    LET indent == comment_indent_from_style(c) IN
    IF indent.err # "none" THEN indent
    ELSE IF indent.val = 0 THEN Ret(None)
    ELSE
    LET sibs == previous_siblings(d, k) IN
    IF sibs = <<>> THEN Raise("SnowflakeError")
    ELSE
    LET stop == skip_deeper(d, indent.val, Tail(sibs), Head(sibs)) IN
    IF stop.err # "none" THEN stop
    ELSE
    LET previous == stop.val
        previous_indent == d[previous].style
    IN
    IF previous_indent = indent.val
    THEN LET previous_parent_id == search_parent(d, previous) IN
         IF previous_parent_id.err # "none" THEN previous_parent_id
         ELSE IF ~Truthy(previous_parent_id.val) THEN Raise("SnowflakeError")
         ELSE previous_parent_id
    ELSE IF \/ previous_indent = indent.val - IndentStepOld
            \/ previous_indent = indent.val - IndentStepNew
         THEN id_of_previous(d[previous])
         ELSE Raise("SnowflakeError")

\* ------------------------------------------------------------------------
\* LiveJournalComment objects
\*   content  published, author and content are set (a live comment)
\*   children heap indices, parent a heap index or 0
\*   frag     the fragment the object was constructed for

NotCalled == [err |-> "notcalled", val |-> None]

live(id, k) ==
    [id |-> id, deleted |-> FALSE, content |-> TRUE, children |-> <<>>,
     parent |-> 0, frag |-> k, zip |-> FALSE]

dead(id, k) ==
    [id |-> id, deleted |-> TRUE, content |-> FALSE, children |-> <<>>,
     parent |-> 0, frag |-> k, zip |-> FALSE]

\* LiveJournalComment.zipped; zip only records which constructor made it
zipped(id, k) ==
    [id |-> id, deleted |-> FALSE, content |-> FALSE, children |-> <<>>,
     parent |-> 0, frag |-> k, zip |-> TRUE]

\* The dataclass __eq__ that 'child in self.children' uses: the same object,
\* or equal fields (children and parent compared as references).
CommentEq(heap, a, b) ==
    \/ a = b
    \/ /\ heap[a].id = heap[b].id
       /\ heap[a].deleted = heap[b].deleted
       /\ heap[a].content = heap[b].content
       /\ heap[a].children = heap[b].children
       /\ heap[a].parent = heap[b].parent

\* An add_child that forgets the child
drop_child(heap, self, child) == [err |-> "none", heap |-> heap]

\* An add_child that puts the child in front
prepend_child(heap, self, child) ==
    IF heap[child].id = heap[self].id
    THEN [err |-> "Exception", heap |-> heap]
    ELSE IF \E i \in 1..Len(heap[self].children) :
                CommentEq(heap, heap[self].children[i], child)
         THEN [err |-> "Exception", heap |-> heap]
         ELSE [err |-> "none",
               heap |-> [heap EXCEPT ![self].children = <<child>> \o @]]

\* An add_child without the check of the child's id against its own
add_self_child(heap, self, child) ==
    IF \E i \in 1..Len(heap[self].children) :
           CommentEq(heap, heap[self].children[i], child)
    THEN [err |-> "Exception", heap |-> heap]
    ELSE [err |-> "none",
          heap |-> [heap EXCEPT ![self].children = Append(@, child)]]

\* LiveJournalComment.add_child: self and child are heap indices
add_child(heap, self, child) ==
    IF heap[child].id = heap[self].id
    THEN [err |-> "Exception", heap |-> heap]
    ELSE IF \E i \in 1..Len(heap[self].children) :
                CommentEq(heap, heap[self].children[i], child)
         THEN [err |-> "Exception", heap |-> heap]
         ELSE [err |-> "none",
               heap |-> [heap EXCEPT ![self].children = Append(@, child)]]

\* A set_parent that passes its check and then records nothing
forget_parent(heap, self, parent) ==
    IF heap[parent].id = heap[self].id
    THEN [err |-> "Exception", heap |-> heap]
    ELSE [err |-> "none", heap |-> heap]

\* LiveJournalComment.set_parent
set_parent(heap, self, parent) ==
    IF heap[parent].id = heap[self].id
    THEN [err |-> "Exception", heap |-> heap]
    ELSE [err |-> "none", heap |-> [heap EXCEPT ![self].parent = parent]]

\* parsed[id] = h
Put(parsed, id, h) ==
    [x \in (DOMAIN parsed) \cup {id} |-> IF x = id THEN h ELSE parsed[x]]

\* [r.id for r in roots]
root_ids(heap, roots) == {heap[roots[i]].id : i \in 1..Len(roots)}

\* A walk that stops at the immediate parent
climb_one(heap, p, threads) ==
    [marked |-> heap[p].id \in threads, thread_id |-> heap[p].id]

\* A walk that does not look at the thread-id set
RECURSIVE climb_unmarked(_, _, _)
climb_unmarked(heap, p, threads) ==
    IF heap[p].parent = 0 THEN [marked |-> FALSE, thread_id |-> heap[p].id]
    ELSE climb_unmarked(heap, heap[p].parent, threads)

\* The upward walk of _parse_live_comment (lines 143-148), from object p:
\* marked when an id already in threads is met, else the id of the topmost.
RECURSIVE climb(_, _, _)
climb(heap, p, threads) ==
    IF heap[p].id \in threads THEN [marked |-> TRUE, thread_id |-> heap[p].id]
    ELSE IF heap[p].parent = 0
         THEN [marked |-> FALSE, thread_id |-> heap[p].id]
         ELSE climb(heap, heap[p].parent, threads)

\* ------------------------------------------------------------------------
\* The locals of _parse_entry_comments as one record m:
\*   heap, parsed, roots, threads, err (the exception raised, or "none"),
\*   sp (what _search_parent returned for the fragment, for the properties)

Fail(m, e) == [m EXCEPT !.err = e]

\* A thread id that is never narrowed
keep_thread_id(reparse_root, thread_id, parent_id) == thread_id

\* Lines 153-156: a thread page that is zipped again enqueues the immediate
\* parent instead of its own root.
narrow_thread_id(reparse_root, thread_id, parent_id) ==
    IF Truthy(reparse_root) /\ reparse_root = thread_id THEN parent_id
    ELSE thread_id

\* The zipped branch of _parse_live_comment (lines 134-158)
parse_zipped_comment(m, d, k, id, reparse_root) ==
    LET h == Len(m.heap) + 1
        m1 == [m EXCEPT !.heap = Append(@, zipped(id, k)),
                        !.parsed = Put(@, id, h)]
        sp == search_parent(d, k)
        m2 == [m1 EXCEPT !.sp = sp]
    IN
    IF sp.err # "none" THEN Fail(m2, sp.err)
    ELSE IF ~Truthy(sp.val) THEN [m2 EXCEPT !.threads = @ \cup {id}]
    ELSE IF sp.val \notin DOMAIN m2.parsed THEN Fail(m2, "KeyError")
    ELSE
    LET parent == m2.parsed[sp.val]
        sp_ == set_parent(m2.heap, h, parent)
        m3 == [m2 EXCEPT !.heap = sp_.heap]
    IN
    IF sp_.err # "none" THEN Fail(m3, sp_.err)
    ELSE
    LET up == climb(m3.heap, parent, m3.threads) IN
    IF up.marked THEN m3
    ELSE IF up.thread_id \notin root_ids(m3.heap, m3.roots)
         THEN Fail(m3, "SnowflakeError")
    ELSE [m3 EXCEPT !.threads =
             @ \cup {narrow_thread_id(reparse_root, up.thread_id, sp.val)}]

\* An attachment that sets the parent reference of the wrong object
attach_reversed(m, h) ==
    IF m.sp.err # "none" THEN Fail(m, m.sp.err)
    ELSE IF ~Truthy(m.sp.val) THEN [m EXCEPT !.roots = Append(@, h)]
    ELSE IF m.sp.val \notin DOMAIN m.parsed THEN Fail(m, "KeyError")
    ELSE
    LET parent == m.parsed[m.sp.val]
        ac == add_child(m.heap, parent, h)
    IN
    IF ac.err # "none" THEN Fail(m, ac.err)
    ELSE
    LET sp_ == set_parent(ac.heap, parent, h) IN
    IF sp_.err # "none" THEN Fail([m EXCEPT !.heap = ac.heap], sp_.err)
    ELSE [m EXCEPT !.heap = sp_.heap]

\* Lines 174-182 and 191-202: attach object h to the parent _search_parent
\* resolved (m.sp), or root it.
attach_resolved(m, h) ==
    IF m.sp.err # "none" THEN Fail(m, m.sp.err)
    ELSE IF ~Truthy(m.sp.val) THEN [m EXCEPT !.roots = Append(@, h)]
    ELSE IF m.sp.val \notin DOMAIN m.parsed THEN Fail(m, "KeyError")
    ELSE
    LET parent == m.parsed[m.sp.val]
        ac == add_child(m.heap, parent, h)
    IN
    IF ac.err # "none" THEN Fail(m, ac.err)
    ELSE
    LET sp_ == set_parent(ac.heap, h, parent) IN
    IF sp_.err # "none" THEN Fail([m EXCEPT !.heap = ac.heap], sp_.err)
    ELSE [m EXCEPT !.heap = sp_.heap]

\* Lines 173-182 and 190-202: resolve the parent of fragment k, then attach
\* object h to it, or root it.
attach_or_root(m, d, k, h) ==
    attach_resolved([m EXCEPT !.sp = search_parent(d, k)], h)

\* A _parse_live_comment that resolves the parent of the reparse-root too
resolve_reparse_root(m, d, k, id, reparse_root) ==
    IF d[k].zipped THEN parse_zipped_comment(m, d, k, id, reparse_root)
    ELSE attach_or_root([m EXCEPT !.heap = Append(@, live(id, k)),
                                  !.parsed = Put(@, id, Len(m.heap) + 1)],
                        d, k, Len(m.heap) + 1)

\* _parse_live_comment
parse_live_comment(m, d, k, id, reparse_root) ==
    IF d[k].zipped THEN parse_zipped_comment(m, d, k, id, reparse_root)
    ELSE
    LET h == Len(m.heap) + 1
        m1 == [m EXCEPT !.heap = Append(@, live(id, k)),
                        !.parsed = Put(@, id, h)]
    IN
    IF Truthy(reparse_root) /\ reparse_root = id
    THEN [m1 EXCEPT !.roots = Append(@, h)]
    ELSE attach_or_root(m1, d, k, h)

\* A _parse_deleted_comment that leaves the tombstone out of the id map
parse_deleted_unrecorded(m, d, k, id) ==
    attach_or_root([m EXCEPT !.heap = Append(@, dead(id, k))],
                   d, k, Len(m.heap) + 1)

\* _parse_deleted_comment
parse_deleted_comment(m, d, k, id) ==
    LET h == Len(m.heap) + 1
        m1 == [m EXCEPT !.heap = Append(@, dead(id, k)),
                        !.parsed = Put(@, id, h)]
    IN attach_or_root(m1, d, k, h)

\* A loop body that takes every see-more element of a hidden group
parse_all_seemore(m, d, k, reparse_root) ==
    LET comment == d[k]
        m0 == [m EXCEPT !.sp = NotCalled]
    IN
    IF comment.tid # None /\ Drop(comment.tid, 1) = <<>>
    THEN IF comment.seemore = <<>> THEN Fail(m0, "SnowflakeError")
         ELSE [m0 EXCEPT !.threads =
                  @ \cup {comment.seemore[i] : i \in 1..Len(comment.seemore)}]
    ELSE IF comment.tid = None /\ comment.idattr = None
         THEN Fail(m0, "SnowflakeError")
    ELSE
    LET id == IF comment.tid # None THEN Drop(comment.tid, 1)
              ELSE Drop(comment.idattr, 5)
    IN
    IF comment.deleted THEN parse_deleted_comment(m0, d, k, id)
    ELSE parse_live_comment(m0, d, k, id, reparse_root)

\* The body of the loop of _parse_entry_comments for fragment k (lines 106-126)
parse_fragment(m, d, k, reparse_root) ==
    LET comment == d[k]
        m0 == [m EXCEPT !.sp = NotCalled]
    IN
    IF comment.tid # None /\ Drop(comment.tid, 1) = <<>>
    THEN IF comment.seemore = <<>> THEN Fail(m0, "SnowflakeError")
         ELSE [m0 EXCEPT !.threads = @ \cup {comment.seemore[1]}]
    ELSE IF comment.tid = None /\ comment.idattr = None
         THEN Fail(m0, "SnowflakeError")
    ELSE
    LET id == IF comment.tid # None THEN Drop(comment.tid, 1)
              ELSE Drop(comment.idattr, 5)
    IN
    IF comment.deleted THEN parse_deleted_comment(m0, d, k, id)
    ELSE parse_live_comment(m0, d, k, id, reparse_root)

\* ------------------------------------------------------------------------
\* The documents the walk is run on. The n-th fragment of a page carries the
\* id IdOf(n): ids are unique within a page, and a link may name an earlier
\* comment, the comment itself, or a comment that is not on the page.

Indents == {0, 25, 55}

\* <is_comment_deleted, is_comment_zipped>: live, zipped, deleted
Kinds == {<<FALSE, FALSE>>, <<FALSE, TRUE>>, <<TRUE, TRUE>>}

\* A comment of template generation gen: "tid" carries data-tid="t<id>",
\* "id" carries id="ljcmt<id>".
Tag(gen, id, kind, links, style) ==
    [tid |-> IF gen = "tid" THEN <<"t">> \o id ELSE None,
     idattr |-> IF gen = "id" THEN LjcmtPrefix \o id ELSE None,
     deleted |-> kind[1], zipped |-> kind[2], links |-> links,
     style |-> style, seemore |-> <<>>, div |-> TRUE]

OffPage == IdOf(MaxLen + 1)

\* No Parent link, or one to an earlier comment of the page.
ParentLinks(k) ==
    {<<>>} \cup {<< <<"t">> \o IdOf(j) >> : j \in 1..(k - 1)}

\* A Parent link to the comment itself, or to a comment not on the page.
\* (The walk never reads the indentation of these.)
StrayLinks(k) == {<< <<"t">> \o IdOf(k) >>, << <<"t">> \o OffPage >>}

\* Shapes the walk has no rule for, and the hidden collapsed group.
Oddities(k, gen) ==
    LET plain == Tag(gen, IdOf(k), <<FALSE, FALSE>>, <<>>, 0) IN
    {[plain EXCEPT !.links = << <<"t", "1">>, <<"t", "1">> >>],
     [plain EXCEPT !.style = NoMargin]}
    \cup {[plain EXCEPT !.links = << <<"t">> >>, !.style = i] : i \in Indents}
    \cup (IF gen = "tid"
          THEN {[plain EXCEPT !.tid = None],
                [plain EXCEPT !.tid = <<"t">>],
                [plain EXCEPT !.tid = <<"t">>,
                              !.seemore = <<IdOf(1), OffPage>>]}
          ELSE {[plain EXCEPT !.div = FALSE]})

\* A full page (no reparse-root), or the thread page of the first or of the
\* second comment shown on it.
ReparseRoots == {None, IdOf(1), IdOf(2)}

\* ------------------------------------------------------------------------
\* State: parse_entry(page, reparse_root) for the page made of the fragments
\* in doc. Walking one more fragment turns it into the call for the page
\* that has that fragment too: the loop of _parse_entry_comments handles
\* fragment k from the locals the first k - 1 fragments left.

VARIABLES
    generation,    \* the template generation of the page
    reparse_root,  \* the argument of parse_entry
    doc,           \* comment_wraps, the fragments of the page
    heap,          \* the LiveJournalComment objects constructed
    parsed,        \* id -> object
    roots,         \* objects, in order
    threads,       \* set of ids
    err,           \* the exception parse_entry raised, or "none"
    sp,            \* what _search_parent returned for the last fragment
    pre,           \* the locals before the last fragment was processed
    pc,            \* where a parse_entry run statement by statement stands
    result,        \* the EntryParseResult returned: comments and threads
    request,       \* the request a handler served: route, url, page links
    response,      \* what the handler answered, or the exception it let out
    calls,         \* the calls the handler made to store and task_queue
    db,            \* Firestore: entry documents and comment documents
    pre_db,        \* db before the last store_entry call
    queue,         \* Cloud Tasks: the tasks created, in order
    dead_letter,   \* the documents under the DeadLetter collection
    running        \* the store_entry calls in progress, statement by statement

vars == <<generation, reparse_root, doc, heap, parsed, roots, threads,
          err, sp, pre, pc, result, request, response, calls, db, pre_db,
          queue, dead_letter, running>>

\* the variables of the parse, and those of the web application around it
parse_vars == <<generation, reparse_root, doc, heap, parsed, roots, threads,
                err, sp, pre, pc, result>>

app_vars == <<request, response, calls, db, pre_db, queue, dead_letter, running>>

NoRequest == [route |-> "none"]

EmptyDb == [entries |-> {}, comments |-> [x \in {} |-> 0]]

\* No request has been served, nothing is stored or enqueued
Offline ==
    /\ request = NoRequest
    /\ response = "none"
    /\ calls = <<>>
    /\ db = EmptyDb
    /\ pre_db = EmptyDb
    /\ queue = <<>>
    /\ dead_letter = <<>>
    /\ running = <<>>

\* No parse_entry is being run statement by statement
Idle ==
    [at |-> "idle", k |-> 0, stack |-> <<>>, previous_siblings |-> <<>>,
     previous |-> 0, ret |-> NotCalled, parent |-> 0, thread_id |-> None]

Locals ==
    [heap |-> heap, parsed |-> parsed, roots |-> roots, threads |-> threads,
     err |-> err, sp |-> sp]

NoResult == [comments |-> <<>>, threads |-> {}]

\* A parse_entry that returns every root
keep_all_roots(h, rs, ths) == rs

\* A parse_entry that leaves out the first root
skip_first_root(h, rs, ths) == IF rs = <<>> THEN <<>> ELSE Tail(rs)

\* comments = filter(lambda r: r.id not in threads, root_comments)
RECURSIVE filter_roots(_, _, _)
filter_roots(h, rs, ths) ==
    IF rs = <<>> THEN <<>>
    ELSE (IF h[Head(rs)].id \notin ths THEN <<Head(rs)>> ELSE <<>>)
         \o filter_roots(h, Tail(rs), ths)

\* Lines 69-77 of parse_entry, from the locals m the walk ended with
parse_entry_result(m) ==
    IF m.err # "none" THEN NoResult
    ELSE [comments |-> filter_roots(m.heap, m.roots, m.threads),
          threads |-> m.threads]

\* A page on which neither selector finds a fragment (lines 93-98).
Init ==
    /\ generation \in {"tid", "id"}
    /\ reparse_root \in ReparseRoots
    /\ doc = <<>>
    /\ heap = <<>>
    /\ parsed = [x \in {} |-> 0]
    /\ roots = <<>>
    /\ threads = {}
    /\ err = "none"
    /\ sp = NotCalled
    /\ pre = [heap |-> <<>>, parsed |-> [x \in {} |-> 0], roots |-> <<>>,
              threads |-> {}, err |-> "none", sp |-> NotCalled]
    /\ result = NoResult
    /\ pc = Idle
    /\ Offline

\* The page has one more fragment f: the loop of _parse_entry_comments runs
\* its body on it, and parse_entry returns or raises.
ParseFragment(f) ==
    \E d \in {Append(doc, f)} :
    \E m \in {parse_fragment(Locals, d, Len(d), reparse_root)} :
       /\ doc' = d
       /\ heap' = m.heap
       /\ parsed' = m.parsed
       /\ roots' = m.roots
       /\ threads' = m.threads
       /\ err' = m.err
       /\ sp' = m.sp
       /\ pre' = Locals
       /\ result' = parse_entry_result(m)
       /\ UNCHANGED <<generation, reparse_root, pc>>
       /\ UNCHANGED app_vars

\* A comment, live, zipped or deleted, with no Parent link or with one to
\* an earlier comment of the page
ParseComment ==
    /\ err = "none"
    /\ Len(doc) < MaxLen
    /\ \E kind \in Kinds, links \in ParentLinks(Len(doc) + 1), style \in Indents :
        ParseFragment(Tag(generation, IdOf(Len(doc) + 1), kind, links, style))

\* A comment whose Parent link names the comment itself or a comment that
\* is not on the page
ParseStray ==
    /\ err = "none"
    /\ Len(doc) < MaxLen
    /\ \E kind \in Kinds, links \in StrayLinks(Len(doc) + 1) :
        ParseFragment(Tag(generation, IdOf(Len(doc) + 1), kind, links, 0))

\* A fragment of one of the odd shapes
ParseOddity ==
    /\ err = "none"
    /\ Len(doc) < MaxLen
    /\ \E f \in Oddities(Len(doc) + 1, generation) : ParseFragment(f)

Next == ParseComment \/ ParseStray \/ ParseOddity

Spec == Init /\ [][Next]_vars

\* The indentations to tell apart for a fragment with these links: a Parent
\* link with an id settles the parent before the indentation is read
IndentsFor(links) == IF links = <<>> THEN Indents ELSE {0}

\* A comment with a new id, or with the id of an earlier fragment of the
\* page again
ParseRepeat ==
    /\ err = "none"
    /\ Len(doc) < MaxLen
    /\ \E j \in 1..(Len(doc) + 1), kind \in Kinds,
          links \in ParentLinks(Len(doc) + 1) :
        \E style \in IndentsFor(links) :
           ParseFragment(Tag(generation, IdOf(j), kind, links, style))

\* Pages on which an id may occur more than once
NextDup == ParseRepeat

SpecDup == Init /\ [][NextDup]_vars

\* ------------------------------------------------------------------------
\* URLs. A URL is the record urlparse makes of it: netloc, path, query and
\* fragment; the query is the sequence of its key=value fields, a value
\* being a string like every string here.

Url(netloc, path, query, fragment) ==
    [netloc |-> netloc, path |-> path, query |-> query, fragment |-> fragment]

DotHtml == <<".", "h", "t", "m", "l">>

\* the path of the page of one entry
EntryPath(id) == <<"/">> \o id \o DotHtml

\* re.fullmatch(r'\/(\d+)\.html', path).group(1) (line 74)
entry_id_from_path(path) ==
    LET n == Len(path) IN
    IF /\ n >= 7
       /\ path[1] = "/"
       /\ SubSeq(path, n - 4, n) = DotHtml
       /\ \A i \in 2..(n - 5) : IsDigit(path[i])
    THEN Ret(SubSeq(path, 2, n - 5))
    ELSE Raise("AttributeError")

\* urlparse.parse_qs(query)[key], <<>> when key is not in the result:
\* fields with a blank value are left out
RECURSIVE parse_qs(_, _)
parse_qs(query, key) ==
    IF query = <<>> THEN <<>>
    ELSE (IF Head(query)[1] = key /\ Head(query)[2] # <<>>
          THEN <<Head(query)[2]>> ELSE <<>>)
         \o parse_qs(Tail(query), key)

\* urlparse.urljoin(url, '?thread=%s' % thread)
thread_url(url, thread) ==
    [url EXCEPT !.query = << <<"thread", thread>> >>, !.fragment = <<>>]

\* ------------------------------------------------------------------------
\* store.py over Firestore. db.entries holds the keys of the entry documents
\* written, db.comments maps the path of a comment document to its fields:
\* deleted, and parent, the id of the parent's document in the same
\* collection or None.

PutDoc(comments, key, fields) ==
    [x \in (DOMAIN comments) \cup {key} |->
        IF x = key THEN fields ELSE comments[x]]

\* the parent field store_comment writes (lines 64-74)
stored_parent(comments, key, comments_only, parent) ==
    IF comments_only /\ parent = None
    THEN IF key \in DOMAIN comments THEN comments[key].parent ELSE parent
    ELSE parent

\* store_comment for each comment of seq in turn, each followed by its
\* children with the comment's document as their parent
RECURSIVE store_comment(_, _, _, _, _, _)
store_comment(comments, collection, hp, seq, comments_only, parent) ==
    IF seq = <<>> THEN comments
    ELSE
    LET comment == hp[Head(seq)]
        key == <<collection[1], collection[2], comment.id>>
        fields == [deleted |-> comment.deleted,
                   parent |-> stored_parent(comments, key, comments_only, parent)]
        own == PutDoc(comments, key, fields)
        below == store_comment(own, collection, hp, comment.children,
                               comments_only, comment.id)
    IN store_comment(below, collection, hp, Tail(seq), comments_only, parent)

\* A store_entry that writes the entry document in either mode
store_with_metadata(d, community, id, hp, comments, comments_only) ==
    [entries |-> d.entries \cup {<<community, id>>},
     comments |-> store_comment(d.comments, <<community, id>>, hp, comments,
                                comments_only, None)]

\* store_entry; hp and comments are the comment tree of the entry
store_entry(d, community, id, hp, comments, comments_only) ==
    [entries |-> IF comments_only THEN d.entries
                 ELSE d.entries \cup {<<community, id>>},
     comments |-> store_comment(d.comments, <<community, id>>, hp, comments,
                                comments_only, None)]

\* ------------------------------------------------------------------------
\* task_queue.py over Cloud Tasks. A task is named by its queue and the
\* SHA-1 of epoch and URL; the digest is kept as the bytes it was taken of,
\* so two names are equal exactly when these are.

Epoch == <<"1">>

\* _generate_task_name
generate_task_name(url) == [sha1 |-> <<Epoch, url>>]

EntriesQueue == "livejournal-entries"

EntryListsQueue == "livejournal-entry-lists"

\* tq.create_task: Conflict for a name the queue has seen, an error of the
\* transport when the service cannot be reached
create_task(q, task, reachable) ==
    IF ~reachable THEN [err |-> "ServiceUnavailable", queue |-> q]
    ELSE IF \E i \in 1..Len(q) : q[i].name = task.name
         THEN [err |-> "Conflict", queue |-> q]
         ELSE [err |-> "none", queue |-> Append(q, task)]

\* An _enqueue_app_engine that leaves the naming of the task to the service
enqueue_unnamed(q, handler, queue_name, url, reachable) ==
    LET task == [name |-> [queue |-> queue_name, task |-> [serial |-> Len(q)]],
                 handler |-> handler, body |-> url]
        made == create_task(q, task, reachable)
    IN IF made.err = "Conflict" THEN [err |-> "none", queue |-> q] ELSE made

\* _enqueue_app_engine
enqueue_app_engine(q, handler, queue_name, url, reachable) ==
    LET task == [name |-> [queue |-> queue_name, task |-> generate_task_name(url)],
                 handler |-> handler, body |-> url]
        made == create_task(q, task, reachable)
    IN IF made.err = "Conflict" THEN [err |-> "none", queue |-> q] ELSE made

\* enqueue_entries
RECURSIVE enqueue_entries(_, _, _)
enqueue_entries(q, links, reachable) ==
    IF links = <<>> THEN [err |-> "none", queue |-> q]
    ELSE
    LET one == enqueue_app_engine(q, "/scrape_entry", EntriesQueue,
                                  Head(links), reachable)
    IN IF one.err # "none" THEN one
       ELSE enqueue_entries(one.queue, Tail(links), reachable)

\* enqueue_entry_list
enqueue_entry_list(q, link, reachable) ==
    enqueue_app_engine(q, "/scrape_entry_list", EntryListsQueue, link, reachable)

\* enqueue_entry_dead_letter: one more document, with a fresh id, in the
\* collection DeadLetter/<community>/<id>
enqueue_entry_dead_letter(dl, community, id, url) ==
    Append(dl, [community |-> community, id |-> id, url |-> url])

\* ------------------------------------------------------------------------
\* parse_entry and parse_entry_list as the handlers call them

StartLocals ==
    [heap |-> <<>>, parsed |-> [x \in {} |-> 0], roots |-> <<>>,
     threads |-> {}, err |-> "none", sp |-> NotCalled]

\* The loop of _parse_entry_comments over the first k fragments of page d
RECURSIVE walk(_, _, _)
walk(d, k, rr) ==
    IF k = 0 THEN StartLocals
    ELSE LET m == walk(d, k - 1, rr) IN
         IF m.err # "none" THEN m ELSE parse_fragment(m, d, k, rr)

\* A _parse_entry_comments for which a page without fragments is an error
require_comments(d, rr) ==
    IF d = <<>> THEN Fail(StartLocals, "SnowflakeError")
    ELSE walk(d, Len(d), rr)

\* _parse_entry_comments: with no fragment under either selector it returns
\* [], set() (lines 93-98), else it runs the loop over all of them
parse_entry_comments(d, rr) ==
    IF d = <<>> THEN StartLocals
    ELSE walk(d, Len(d), rr)

\* Community.__all_subclasses__: the adapters of the registry, in its order
Registry ==
    <<[class |-> "FTM", netloc |-> "ftm"],
      [class |-> "MTF", netloc |-> "mtf"],
      [class |-> "Genderqueer", netloc |-> "genderqueer"],
      [class |-> "Transgender", netloc |-> "transgender"]>>

\* A from_netloc that falls back on the first adapter of the registry
from_netloc_default(netloc) ==
    LET found == SelectSeq(Registry, LAMBDA c : c.netloc = netloc) IN
    IF found = <<>> THEN Ret(Registry[1]) ELSE Ret(found[1])

\* Community.from_netloc
from_netloc(netloc) ==
    LET found == SelectSeq(Registry, LAMBDA c : c.netloc = netloc) IN
    IF found = <<>> THEN Raise("SnowflakeError") ELSE Ret(found[1])

\* parsed.netloc.split(".")[0], the network location given by its labels
first_label(netloc) == IF netloc = <<>> THEN "" ELSE netloc[1]

\* find_community, from the network location of the page's og:url
find_community(netloc) == from_netloc(first_label(netloc))

\* Community.to_entry_url, with the override of Genderqueer that
\* Transgender inherits
to_entry_url(community, id) ==
    Url(<<community.netloc, "livejournal", "com">>, EntryPath(id),
        IF community.class \in {"Genderqueer", "Transgender"}
        THEN << <<"nojs", <<"1">> >> >> ELSE <<>>,
        <<>>)

\* parse_entry_list: listing.self is the network location of the page's
\* own URL, listing.entries the ids its entry links carry, listing.prev the
\* link the adapter finds for the previous page, if any
parse_entry_list(listing) ==
    LET community == find_community(listing.self) IN
    IF community.err # "none" THEN [err |-> community.err]
    ELSE [err |-> "none",
          entry_links |-> {to_entry_url(community.val, id) : id \in listing.entries},
          prev_link |-> listing.prev]

\* ------------------------------------------------------------------------
\* app.py. A handler's outcome: the response ("OK", or the exception that
\* leaves the handler), the calls made to store and task_queue, and what
\* became of the database, the queue and the dead letters (w before).
\* fault names the collaborator that fails while the request is served:
\* "fetch" the site, "store" Firestore in store_entry, "tasks" Cloud Tasks.

\* the orders in which a set may be iterated
Orders(S) ==
    {o \in [1..Cardinality(S) -> S] : \A i, j \in DOMAIN o : o[i] = o[j] => i = j}

StoreCall(community, id, comments, comments_only) ==
    [fn |-> "store_entry", community |-> community, id |-> id,
     comments |-> comments, comments_only |-> comments_only]

EnqueueCall(fn, links) == [fn |-> fn, links |-> links]

DeadLetterCall(community, id, url) ==
    [fn |-> "enqueue_entry_dead_letter", community |-> community, id |-> id,
     url |-> url]

Outcome(answer, cs, w) ==
    [response |-> answer, calls |-> cs, db |-> w.db, queue |-> w.queue,
     dead_letter |-> w.dead_letter]

\* An href attribute with the empty string as value
EmptyHref == Url(<<>>, <<>>, <<>>, <<>>)

\* A try block that goes on with the comments built so far when parse_entry
\* raised
try_store_partial(w, url, community, id, m, thread_list, next_page, fault) ==
    LET thread == parse_qs(url.query, "thread")
        comments_only == thread # <<>> \/ parse_qs(url.query, "page") # <<>>
        comments == filter_roots(m.heap, m.roots, m.threads)
        stored == StoreCall(community, id, comments, comments_only)
        w1 == [w EXCEPT !.db = store_entry(@, community, id, m.heap, comments,
                                           comments_only)]
        thread_urls == [i \in 1..Len(thread_list) |->
                           thread_url(url, thread_list[i])]
        one == enqueue_entries(w1.queue, thread_urls, fault # "tasks")
    IN [err |-> IF m.err # "none" THEN m.err ELSE one.err,
        calls |-> <<stored, EnqueueCall("enqueue_entries", thread_urls)>>,
        w |-> [w1 EXCEPT !.queue = one.queue]]

\* A try block that enqueues the threads before it stores the entry
try_enqueue_first(w, url, community, id, m, thread_list, next_page, fault) ==
    LET thread == parse_qs(url.query, "thread")
        comments_only == thread # <<>> \/ parse_qs(url.query, "page") # <<>>
        parsed_entry == parse_entry_result(m)
        stored == StoreCall(community, id, parsed_entry.comments, comments_only)
        thread_urls == [i \in 1..Len(thread_list) |->
                           thread_url(url, thread_list[i])]
        one == enqueue_entries(w.queue, thread_urls, fault # "tasks")
        w1 == [w EXCEPT !.queue = one.queue]
        cs1 == <<EnqueueCall("enqueue_entries", thread_urls)>>
    IN
    IF m.err # "none" THEN [err |-> m.err, calls |-> <<>>, w |-> w]
    ELSE IF thread # <<>> /\ thread[1] \in parsed_entry.threads
    THEN [err |-> "SnowflakeError", calls |-> <<>>, w |-> w]
    ELSE IF one.err # "none" THEN [err |-> one.err, calls |-> cs1, w |-> w1]
    ELSE IF fault = "store"
    THEN [err |-> "ServiceUnavailable", calls |-> Append(cs1, stored), w |-> w1]
    ELSE [err |-> "none", calls |-> Append(cs1, stored),
          w |-> [w1 EXCEPT !.db = store_entry(@, community, id, m.heap,
                                              parsed_entry.comments,
                                              comments_only)]]

\* A try block that does not compare the thread of the URL with the
\* thread-id set of the parse
try_unchecked(w, url, community, id, m, thread_list, next_page, fault) ==
    LET thread == parse_qs(url.query, "thread")
        comments_only == thread # <<>> \/ parse_qs(url.query, "page") # <<>>
        parsed_entry == parse_entry_result(m)
        stored == StoreCall(community, id, parsed_entry.comments, comments_only)
    IN
    IF m.err # "none" THEN [err |-> m.err, calls |-> <<>>, w |-> w]
    ELSE IF fault = "store"
    THEN [err |-> "ServiceUnavailable", calls |-> <<stored>>, w |-> w]
    ELSE
    LET w1 == [w EXCEPT !.db = store_entry(@, community, id, m.heap,
                                           parsed_entry.comments, comments_only)]
        thread_urls == [i \in 1..Len(thread_list) |->
                           thread_url(url, thread_list[i])]
        one == enqueue_entries(w1.queue, thread_urls, fault # "tasks")
        w2 == [w1 EXCEPT !.queue = one.queue]
        cs2 == <<stored, EnqueueCall("enqueue_entries", thread_urls)>>
    IN
    IF one.err # "none" THEN [err |-> one.err, calls |-> cs2, w |-> w2]
    ELSE IF next_page = <<>> \/ next_page[1] = EmptyHref
    THEN [err |-> "none", calls |-> cs2, w |-> w2]
    ELSE
    LET two == enqueue_entries(w2.queue, next_page, fault # "tasks") IN
    [err |-> two.err,
     calls |-> Append(cs2, EnqueueCall("enqueue_entries", next_page)),
     w |-> [w2 EXCEPT !.queue = two.queue]]

\* The try block of scrape_entry (lines 77-90): err is what it raised
try_scrape_entry(w, url, community, id, m, thread_list, next_page, fault) ==
    LET thread == parse_qs(url.query, "thread")
        comments_only == thread # <<>> \/ parse_qs(url.query, "page") # <<>>
        parsed_entry == parse_entry_result(m)
        stored == StoreCall(community, id, parsed_entry.comments, comments_only)
    IN
    IF m.err # "none" THEN [err |-> m.err, calls |-> <<>>, w |-> w]
    ELSE IF thread # <<>> /\ thread[1] \in parsed_entry.threads
    THEN [err |-> "SnowflakeError", calls |-> <<>>, w |-> w]
    ELSE IF fault = "store"
    THEN [err |-> "ServiceUnavailable", calls |-> <<stored>>, w |-> w]
    ELSE
    LET w1 == [w EXCEPT !.db = store_entry(@, community, id, m.heap,
                                           parsed_entry.comments, comments_only)]
        thread_urls == [i \in 1..Len(thread_list) |->
                           thread_url(url, thread_list[i])]
        one == enqueue_entries(w1.queue, thread_urls, fault # "tasks")
        w2 == [w1 EXCEPT !.queue = one.queue]
        cs2 == <<stored, EnqueueCall("enqueue_entries", thread_urls)>>
    IN
    IF one.err # "none" THEN [err |-> one.err, calls |-> cs2, w |-> w2]
    ELSE IF next_page = <<>> \/ next_page[1] = EmptyHref
    THEN [err |-> "none", calls |-> cs2, w |-> w2]
    ELSE
    LET two == enqueue_entries(w2.queue, next_page, fault # "tasks") IN
    [err |-> two.err,
     calls |-> Append(cs2, EnqueueCall("enqueue_entries", next_page)),
     w |-> [w2 EXCEPT !.queue = two.queue]]

\* A scrape_entry without the except clause
scrape_entry_uncaught(w, url, m, thread_list, next_page, fault) ==
    LET community == url.netloc
        id == entry_id_from_path(url.path)
    IN
    IF id.err # "none" THEN Outcome(id.err, <<>>, w)
    ELSE IF fault = "fetch" THEN Outcome("ConnectionError", <<>>, w)
    ELSE
    LET try == try_scrape_entry(w, url, community, id.val, m, thread_list,
                                next_page, fault)
    IN Outcome("OK", try.calls, try.w)

\* scrape_entry; m is what parse_entry made of the fetched page and
\* thread_list the order in which the thread-id set is iterated
scrape_entry(w, url, m, thread_list, next_page, fault) ==
    LET community == url.netloc
        id == entry_id_from_path(url.path)
    IN
    IF id.err # "none" THEN Outcome(id.err, <<>>, w)
    ELSE IF fault = "fetch" THEN Outcome("ConnectionError", <<>>, w)
    ELSE
    LET try == try_scrape_entry(w, url, community, id.val, m, thread_list,
                                next_page, fault)
    IN
    IF try.err = "none" THEN Outcome("OK", try.calls, try.w)
    ELSE Outcome("OK",
                 Append(try.calls, DeadLetterCall(community, id.val, url)),
                 [try.w EXCEPT !.dead_letter =
                     enqueue_entry_dead_letter(@, community, id.val, url)])

\* 'if parsed_entry_list.prev_link:' the link is neither None nor ''
has_prev_link(prev_link) == prev_link # <<>> /\ prev_link[1] # EmptyHref

\* A scrape_entry_list for which a page without previous-page link is an
\* error
require_prev_link(w, url, listing, entry_list, fault) ==
    IF fault = "fetch" THEN Outcome("ConnectionError", <<>>, w)
    ELSE
    LET parsed_entry_list == parse_entry_list(listing) IN
    IF parsed_entry_list.err # "none" THEN Outcome(parsed_entry_list.err, <<>>, w)
    ELSE IF ~has_prev_link(parsed_entry_list.prev_link)
    THEN Outcome("SnowflakeError", <<>>, w)
    ELSE
    LET one == enqueue_entries(w.queue, entry_list, fault # "tasks")
        w1 == [w EXCEPT !.queue = one.queue]
        cs1 == <<EnqueueCall("enqueue_entries", entry_list)>>
    IN
    IF one.err # "none" THEN Outcome(one.err, cs1, w1)
    ELSE
    LET two == enqueue_entry_list(w1.queue, parsed_entry_list.prev_link[1],
                                  fault # "tasks")
        cs2 == Append(cs1, EnqueueCall("enqueue_entry_list",
                                       parsed_entry_list.prev_link))
    IN Outcome(IF two.err = "none" THEN "OK" ELSE two.err, cs2,
               [w1 EXCEPT !.queue = two.queue])

\* scrape_entry_list; entry_list is the order in which the set of entry
\* links is iterated
scrape_entry_list(w, url, listing, entry_list, fault) ==
    IF fault = "fetch" THEN Outcome("ConnectionError", <<>>, w)
    ELSE
    LET parsed_entry_list == parse_entry_list(listing) IN
    IF parsed_entry_list.err # "none" THEN Outcome(parsed_entry_list.err, <<>>, w)
    ELSE
    LET one == enqueue_entries(w.queue, entry_list, fault # "tasks")
        w1 == [w EXCEPT !.queue = one.queue]
        cs1 == <<EnqueueCall("enqueue_entries", entry_list)>>
    IN
    IF one.err # "none" THEN Outcome(one.err, cs1, w1)
    ELSE IF ~has_prev_link(parsed_entry_list.prev_link)
    THEN Outcome("OK", cs1, w1)
    ELSE
    LET two == enqueue_entry_list(w1.queue, parsed_entry_list.prev_link[1],
                                  fault # "tasks")
        cs2 == Append(cs1, EnqueueCall("enqueue_entry_list",
                                       parsed_entry_list.prev_link))
    IN Outcome(IF two.err = "none" THEN "OK" ELSE two.err, cs2,
               [w1 EXCEPT !.queue = two.queue])

\* ------------------------------------------------------------------------
\* One request served by the application, from an empty database and queue

AppLen == 2

\* the k-th fragment of a page: a comment with no Parent link, with one to
\* an earlier comment, or a live one with a link to a comment not on the page
AppFragments(gen, k) ==
    {Tag(gen, IdOf(k), kind, links, style) :
        kind \in Kinds, links \in ParentLinks(k), style \in Indents}
    \cup {Tag(gen, IdOf(k), <<FALSE, FALSE>>, << <<"t">> \o OffPage >>, 0)}

RECURSIVE AppPages(_, _)
AppPages(gen, n) ==
    IF n = 0 THEN {<<>>}
    ELSE LET shorter == AppPages(gen, n - 1) IN
         shorter \cup
         {Append(page, f) : page \in {q \in shorter : Len(q) = n - 1},
                            f \in {g \in AppFragments(gen, n) :
                                      g.style \in IndentsFor(g.links)}}

Netlocs == {<<"ftm", "livejournal", "com">>, <<"genderqueer", "livejournal", "com">>}

\* the path of an entry, and that of a journal's front page
Paths == {EntryPath(<<"7">>), <<"/">>}

Queries ==
    {<<>>,
     << <<"thread", IdOf(1)>> >>,
     << <<"thread", IdOf(2)>> >>,
     << <<"thread", IdOf(2)>>, <<"thread", IdOf(1)>> >>,
     << <<"page", <<"2">> >> >>,
     << <<"thread", <<>> >> >>,
     << <<"page", <<>> >> >>}

CommentsAnchor == <<"c", "o", "m", "m", "e", "n", "t", "s">>

\* what _search_next_comment_page returns: None, the link to the second
\* page of comments, or (on a first page) an empty href
NextPages(url) ==
    {<<>>, <<Url(url.netloc, url.path, << <<"page", <<"2">> >> >>, CommentsAnchor)>>}
    \cup (IF url.query = <<>> THEN {<<EmptyHref>>} ELSE {})

Faults == {"none", "fetch", "store", "tasks"}

World == [db |-> db, queue |-> queue, dead_letter |-> dead_letter]

\* qs['thread'][0] if 'thread' in qs else None (lines 68-72)
reparse_root_of(url) ==
    LET thread == parse_qs(url.query, "thread") IN
    IF thread # <<>> THEN thread[1] ELSE None

\* what a handler leaves behind
Served(req, out) ==
    /\ request' = req
    /\ response' = out.response
    /\ calls' = out.calls
    /\ pre_db' = db
    /\ db' = out.db
    /\ queue' = out.queue
    /\ dead_letter' = out.dead_letter
    /\ UNCHANGED running

\* POST /scrape_entry with the URL as body; the site answers with a page.
\* The variables of the parse show the call of parse_entry, if it came to it.
ScrapeEntry ==
    /\ request = NoRequest
    /\ \E netloc \in Netlocs, path \in Paths, query \in Queries,
          page \in AppPages(generation, AppLen), fault \in Faults :
       \E url \in {Url(netloc, path, query, <<>>)} :
       \E next_page \in NextPages(url) :
       \E m \in {parse_entry_comments(page, reparse_root_of(url))} :
       \E thread_list \in Orders(m.threads) :
       \E out \in {scrape_entry(World, url, m, thread_list, next_page, fault)} :
          /\ Served([route |-> "/scrape_entry", url |-> url,
                     next_page |-> next_page, fault |-> fault], out)
          /\ IF out.response = "OK"
             THEN /\ reparse_root' = reparse_root_of(url)
                  /\ doc' = page
                  /\ heap' = m.heap
                  /\ parsed' = m.parsed
                  /\ roots' = m.roots
                  /\ threads' = m.threads
                  /\ err' = m.err
                  /\ sp' = m.sp
                  /\ result' = parse_entry_result(m)
                  /\ UNCHANGED <<generation, pre, pc>>
             ELSE UNCHANGED parse_vars

\* the first labels of the own URLs of the pages served: the four
\* communities, and two that are none of them
Labels == {"ftm", "mtf", "genderqueer", "transgender", "tumblr", "www"}

\* the network locations of those URLs, and that of a URL without one
SelfNetlocs == {<<label, "livejournal", "com">> : label \in Labels} \cup {<<>>}

EntryIds == {<<"7">>, <<"8">>}

\* the front page of a journal, or the page after skipping ten entries
ListUrl(netloc, skip) ==
    Url(netloc, <<"/">>, IF skip THEN << <<"skip", <<"1">> >> >> ELSE <<>>, <<>>)

\* what the adapter's entry_list_prev_link returns: None, an empty href, or
\* the URL of the page ten entries further back
PrevLinks(netloc) == {<<>>, <<EmptyHref>>, <<ListUrl(netloc, TRUE)>>}

\* the order in which the handler iterates the links of the parse result
LinkOrders(parsed_entry_list) ==
    IF parsed_entry_list.err # "none" THEN {<<>>}
    ELSE Orders(parsed_entry_list.entry_links)

\* POST /scrape_entry_list with the URL as body; the site answers with a
\* page of links
ScrapeEntryList ==
    /\ request = NoRequest
    /\ \E netloc \in Netlocs, self \in SelfNetlocs, entries \in SUBSET EntryIds,
          fault \in Faults, skip \in BOOLEAN :
       \E prev \in PrevLinks(netloc) :
       \E listing \in {[self |-> self, entries |-> entries, prev |-> prev]} :
       \E entry_list \in LinkOrders(parse_entry_list(listing)) :
       \E out \in {scrape_entry_list(World, ListUrl(netloc, skip), listing,
                                      entry_list, fault)} :
          /\ Served([route |-> "/scrape_entry_list",
                     url |-> ListUrl(netloc, skip), listing |-> listing,
                     fault |-> fault], out)
          /\ UNCHANGED parse_vars

InitApp == Init /\ reparse_root = None

\* ------------------------------------------------------------------------
\* store_entry called again and again for the comments of one entry, each
\* time with the tree parse_entry returned for some page of that entry

MaxStores == 2

StoreCommunity == <<"ftm", "livejournal", "com">>

StoreEntryId == <<"7">>

StoreEntry ==
    /\ Len(calls) < MaxStores
    /\ \E page \in AppPages(generation, AppLen), rr \in ReparseRoots,
          comments_only \in BOOLEAN :
       \E m \in {walk(page, Len(page), rr)} :
          /\ m.err = "none"
          /\ reparse_root' = rr
          /\ doc' = page
          /\ heap' = m.heap
          /\ parsed' = m.parsed
          /\ roots' = m.roots
          /\ threads' = m.threads
          /\ err' = m.err
          /\ sp' = m.sp
          /\ result' = parse_entry_result(m)
          /\ calls' = Append(calls, StoreCall(StoreCommunity, StoreEntryId,
                                              result'.comments, comments_only))
          /\ pre_db' = db
          /\ db' = store_entry(db, StoreCommunity, StoreEntryId, m.heap,
                               result'.comments, comments_only)
          /\ UNCHANGED <<generation, pre, pc, request, response, queue, dead_letter,
                       running>>

InitStore == Init /\ reparse_root = None /\ generation = "tid"

NextStore == StoreEntry

SpecStore == InitStore /\ [][NextStore]_vars

\* ------------------------------------------------------------------------
\* The functions of task_queue called again and again on one Cloud Tasks
\* service; response is "returned", or the exception of the last call

MaxEnqueues == 3

QueueUrls ==
    {to_entry_url(Registry[1], <<"7">>),
     thread_url(to_entry_url(Registry[1], <<"7">>), IdOf(1)),
     ListUrl(<<"ftm", "livejournal", "com">>, FALSE)}

\* the lists of at most two links
LinkLists ==
    {<<>>} \cup {<<a>> : a \in QueueUrls} \cup {<<a, b>> : a, b \in QueueUrls}

Returned(made) == IF made.err = "none" THEN "returned" ELSE made.err

EnqueueEntries ==
    /\ Len(calls) < MaxEnqueues
    /\ \E links \in LinkLists :
       \E made \in {enqueue_entries(queue, links, TRUE)} :
          /\ calls' = Append(calls, EnqueueCall("enqueue_entries", links))
          /\ queue' = made.queue
          /\ response' = Returned(made)
    /\ UNCHANGED <<parse_vars, request, db, pre_db, dead_letter, running>>

EnqueueEntryList ==
    /\ Len(calls) < MaxEnqueues
    /\ \E link \in QueueUrls :
       \E made \in {enqueue_entry_list(queue, link, TRUE)} :
          /\ calls' = Append(calls, EnqueueCall("enqueue_entry_list", <<link>>))
          /\ queue' = made.queue
          /\ response' = Returned(made)
    /\ UNCHANGED <<parse_vars, request, db, pre_db, dead_letter, running>>

InitQueue == Init /\ reparse_root = None /\ generation = "tid"

NextQueue == EnqueueEntries \/ EnqueueEntryList

SpecQueue == InitQueue /\ [][NextQueue]_vars

NextApp == ScrapeEntry \/ ScrapeEntryList

SpecApp == InitApp /\ [][NextApp]_vars

\* ------------------------------------------------------------------------
\* store_entry statement by statement, for handlers that serve requests for
\* one entry at the same time. Each read (docref.get) and each write
\* (docref.set) of Firestore is one step; what a handler does between two
\* of them touches only its own locals. running[h] is the call of handler h:
\*   todo    the store_comment calls it makes, in order, each with the id
\*           of the parent document it passes (None for a root)
\*   k       the call it is in
\*   at      "entry"  before docref.set of the entry document (line 35)
\*           "get"    before docref.get(['parent']) (line 65)
\*           "set"    before docref.set(doc) of the comment (line 75)
\*           "done"   returned
\*   parent  doc['parent'] as lines 63-72 left it after the read

MaxHandlers == 2

\* the store_comment calls of store_entry for the comments seq: each
\* comment, then its children with the comment's document as parent
RECURSIVE store_calls(_, _, _)
store_calls(hp, seq, parent) ==
    IF seq = <<>> THEN <<>>
    ELSE LET comment == hp[Head(seq)] IN
         <<[id |-> comment.id, deleted |-> comment.deleted, parent |-> parent]>>
         \o store_calls(hp, comment.children, comment.id)
         \o store_calls(hp, Tail(seq), parent)

\* 'if comments_only and not parent:' (line 63)
reads_parent(comments_only, call) == comments_only /\ call.parent = None

\* the statement a store_entry is at when it comes to its k-th store_comment
statement_at(comments_only, todo, k) ==
    IF k > Len(todo) THEN "done"
    ELSE IF reads_parent(comments_only, todo[k]) THEN "get"
    ELSE "set"

\* collection.document(comment.id): the path of a comment's document
comment_document(id) == <<StoreCommunity, StoreEntryId, id>>

\* A handler calls store_entry with the tree parse_entry made of its page;
\* a thread page is stored comments-only (app.py line 73)
StartStoreEntry ==
    /\ Len(running) < MaxHandlers
    /\ \E page \in AppPages(generation, AppLen), rr \in ReparseRoots :
       \E comments_only \in (IF rr # None THEN {TRUE} ELSE BOOLEAN) :
       \E m \in {walk(page, Len(page), rr)} :
       \E todo \in {store_calls(m.heap, parse_entry_result(m).comments, None)} :
          /\ m.err = "none"
          /\ running' = Append(running,
                [comments_only |-> comments_only,
                 todo |-> todo,
                 k |-> 1,
                 at |-> IF comments_only
                        THEN statement_at(comments_only, todo, 1)
                        ELSE "entry",
                 parent |-> None])
    /\ UNCHANGED <<parse_vars, request, response, calls, db, pre_db, queue,
                   dead_letter>>

\* docref.set(doc) of the entry document (lines 27-35)
SetEntry ==
    \E h \in 1..Len(running) :
       /\ running[h].at = "entry"
       /\ db' = [db EXCEPT !.entries = @ \cup {<<StoreCommunity, StoreEntryId>>}]
       /\ running' = [running EXCEPT ![h].at =
                         statement_at(running[h].comments_only, running[h].todo, 1)]
       /\ UNCHANGED <<parse_vars, request, response, calls, pre_db, queue,
                      dead_letter>>

\* snapshot = docref.get(['parent']) and the choice of doc['parent'] from
\* it (lines 64-72)
GetParent ==
    \E h \in 1..Len(running) :
       /\ running[h].at = "get"
       /\ \E call \in {running[h].todo[running[h].k]} :
             running' = [running EXCEPT
                ![h].at = "set",
                ![h].parent = stored_parent(db.comments,
                                            comment_document(call.id),
                                            running[h].comments_only,
                                            call.parent)]
       /\ UNCHANGED <<parse_vars, request, response, calls, db, pre_db, queue,
                      dead_letter>>

\* docref.set(doc) of a comment (line 75), with the parent read before or,
\* when nothing was read, the parent passed (lines 73-74); then the call for
\* the next comment
SetComment ==
    \E h \in 1..Len(running) :
       /\ running[h].at = "set"
       /\ \E call \in {running[h].todo[running[h].k]} :
          \E parent \in {IF reads_parent(running[h].comments_only, call)
                         THEN running[h].parent ELSE call.parent} :
             /\ db' = [db EXCEPT !.comments =
                          PutDoc(@, comment_document(call.id),
                                 [deleted |-> call.deleted, parent |-> parent])]
             /\ running' = [running EXCEPT
                   ![h].k = @ + 1,
                   ![h].at = statement_at(running[h].comments_only,
                                          running[h].todo, running[h].k + 1),
                   ![h].parent = None]
       /\ UNCHANGED <<parse_vars, request, response, calls, pre_db, queue,
                      dead_letter>>

InitRace == Init /\ reparse_root = None /\ generation = "tid"

NextRace == StartStoreEntry \/ SetEntry \/ GetParent \/ SetComment

SpecRace == InitRace /\ [][NextRace]_vars

\* ------------------------------------------------------------------------
\* parse_entry statement by statement. pc.at is the statement the run is at:
\*   "for"     the head of the loop of _parse_entry_comments, at fragment k
\*   "call"    the entry of _search_parent for the fragment on top of stack
\*   "while"   the head of the skip loop of _search_parent
\*   "return"  _search_parent returns pc.ret to its caller
\*   "climb"   the head of the upward loop of the zipped branch
\*   "returned", "raised"   parse_entry is over
\* pc.stack holds the fragments of the active calls of _search_parent, the
\* innermost last; previous_siblings, previous, parent and thread_id are the
\* locals of those names.

StepLen == 3

\* the pages a run is started on
StepPages(gen) == AppPages(gen, StepLen)

\* the next iteration of the loop of _parse_entry_comments
next_fragment(p) == [Idle EXCEPT !.at = "for", !.k = p.k + 1]

raised(m, p, e) == [m |-> Fail(m, e), pc |-> [p EXCEPT !.at = "raised"]]

returning(m, p, r) == [m |-> m, pc |-> [p EXCEPT !.at = "return", !.ret = r]]

\* Lines 105-127: the loop takes fragment p.k, or is exhausted
step_for(m, p, d, rr) ==
    IF p.k > Len(d) THEN [m |-> m, pc |-> [p EXCEPT !.at = "returned"]]
    ELSE
    LET comment == d[p.k]
        m0 == [m EXCEPT !.sp = NotCalled]
    IN
    IF comment.tid # None /\ Drop(comment.tid, 1) = <<>>
    THEN IF comment.seemore = <<>> THEN raised(m0, p, "SnowflakeError")
         ELSE [m |-> [m0 EXCEPT !.threads = @ \cup {comment.seemore[1]}],
               pc |-> next_fragment(p)]
    ELSE IF comment.tid = None /\ comment.idattr = None
         THEN raised(m0, p, "SnowflakeError")
    ELSE
    LET id == IF comment.tid # None THEN Drop(comment.tid, 1)
              ELSE Drop(comment.idattr, 5)
        h == Len(m.heap) + 1
        modeled == IF comment.deleted THEN dead(id, p.k)
                   ELSE IF comment.zipped THEN zipped(id, p.k)
                   ELSE live(id, p.k)
        m1 == [m0 EXCEPT !.heap = Append(@, modeled), !.parsed = Put(@, id, h)]
    IN
    IF ~comment.deleted /\ ~comment.zipped /\ Truthy(rr)
       /\ rr = id
    THEN [m |-> [m1 EXCEPT !.roots = Append(@, h)], pc |-> next_fragment(p)]
    ELSE [m |-> m1, pc |-> [p EXCEPT !.at = "call", !.stack = <<p.k>>]]

\* Lines 213-226 of _search_parent, up to the first pop(0)
step_call(m, p, d) ==
    LET c == d[p.stack[Len(p.stack)]]
        from_href == parent_id_from_href(c)
        indent == comment_indent_from_style(c)
        sibs == previous_siblings(d, p.stack[Len(p.stack)])
    IN
    IF from_href.err # "none" \/ Truthy(from_href.val)
    THEN returning(m, p, from_href)
    ELSE IF indent.err # "none" THEN returning(m, p, indent)
    ELSE IF indent.val = 0 THEN returning(m, p, Ret(None))
    ELSE IF sibs = <<>> THEN returning(m, p, Raise("SnowflakeError"))
    ELSE [m |-> m,
          pc |-> [p EXCEPT !.at = "while", !.previous = Head(sibs),
                           !.previous_siblings = Tail(sibs)]]

\* A skip loop that looks at the same sibling again
step_while_stuck(m, p, d) ==
    LET indent == d[p.stack[Len(p.stack)]].style
        previous_indent == comment_indent_from_style(d[p.previous])
    IN
    IF previous_indent.err # "none" THEN returning(m, p, previous_indent)
    ELSE IF previous_indent.val > indent THEN [m |-> m, pc |-> p]
    ELSE returning(m, p, Raise("SnowflakeError"))

\* Lines 227-286: one test of 'while previous_indent > indent', then either
\* the body of the loop or what follows the loop
step_while(m, p, d) ==
    LET indent == d[p.stack[Len(p.stack)]].style
        previous_indent == comment_indent_from_style(d[p.previous])
    IN
    IF previous_indent.err # "none" THEN returning(m, p, previous_indent)
    ELSE IF previous_indent.val > indent
    THEN IF p.previous_siblings = <<>>
         THEN returning(m, p, Raise("IndexError"))
         ELSE [m |-> m,
               pc |-> [p EXCEPT !.previous = Head(p.previous_siblings),
                                !.previous_siblings = Tail(@)]]
    ELSE IF previous_indent.val = indent
    THEN [m |-> m, pc |-> [p EXCEPT !.at = "call",
                                    !.stack = Append(@, p.previous)]]
    ELSE IF \/ previous_indent.val = indent - IndentStepOld
            \/ previous_indent.val = indent - IndentStepNew
         THEN returning(m, p, id_of_previous(d[p.previous]))
         ELSE returning(m, p, Raise("SnowflakeError"))

\* _search_parent returns: to the call that recursed into it (lines
\* 268-273), or to _parse_live_comment (lines 140-143, 174-182) or
\* _parse_deleted_comment (lines 191-202)
step_return(m, p, d) ==
    IF Len(p.stack) > 1
    THEN [m |-> m,
          pc |-> [p EXCEPT !.stack = SubSeq(@, 1, Len(@) - 1),
                           !.ret = IF p.ret.err = "none" /\ ~Truthy(p.ret.val)
                                   THEN Raise("SnowflakeError") ELSE p.ret]]
    ELSE
    LET h == Len(m.heap)
        m2 == [m EXCEPT !.sp = p.ret]
        zip == ~d[p.k].deleted /\ d[p.k].zipped
    IN
    IF ~zip
    THEN LET m3 == attach_resolved(m2, h) IN
         IF m3.err # "none" THEN raised(m3, p, m3.err)
         ELSE [m |-> m3, pc |-> next_fragment(p)]
    ELSE IF p.ret.err # "none" THEN raised(m2, p, p.ret.err)
    ELSE IF ~Truthy(p.ret.val)
    THEN [m |-> [m2 EXCEPT !.threads = @ \cup {m2.heap[h].id}],
          pc |-> next_fragment(p)]
    ELSE IF p.ret.val \notin DOMAIN m2.parsed THEN raised(m2, p, "KeyError")
    ELSE
    LET parent == m2.parsed[p.ret.val]
        sp_ == set_parent(m2.heap, h, parent)
    IN
    IF sp_.err # "none" THEN raised(m2, p, sp_.err)
    ELSE [m |-> [m2 EXCEPT !.heap = sp_.heap],
          pc |-> [p EXCEPT !.at = "climb", !.parent = parent,
                           !.thread_id = m2.heap[h].id]]

\* An upward loop that never leaves the comment it starts at
step_climb_stuck(m, p, rr) ==
    IF m.heap[p.parent].id \in m.threads
    THEN [m |-> m, pc |-> next_fragment(p)]
    ELSE [m |-> m, pc |-> [p EXCEPT !.thread_id = m.heap[p.parent].id]]

\* Lines 144-158: one turn of 'while parent:', and what follows the loop
\* when parent.parent is None
step_climb(m, p, rr) ==
    LET thread_id == m.heap[p.parent].id IN
    IF thread_id \in m.threads THEN [m |-> m, pc |-> next_fragment(p)]
    ELSE IF m.heap[p.parent].parent # 0
    THEN [m |-> m, pc |-> [p EXCEPT !.thread_id = thread_id,
                                    !.parent = m.heap[p.parent].parent]]
    ELSE IF thread_id \notin root_ids(m.heap, m.roots)
    THEN raised(m, [p EXCEPT !.thread_id = thread_id, !.parent = 0],
                "SnowflakeError")
    ELSE [m |-> [m EXCEPT !.threads =
                    @ \cup {narrow_thread_id(rr, thread_id, m.sp.val)}],
          pc |-> next_fragment(p)]

\* the run goes on to n
Goes(n) ==
    /\ heap' = n.m.heap
    /\ parsed' = n.m.parsed
    /\ roots' = n.m.roots
    /\ threads' = n.m.threads
    /\ err' = n.m.err
    /\ sp' = n.m.sp
    /\ pc' = n.pc
    /\ result' = IF n.pc.at = "returned" THEN parse_entry_result(n.m) ELSE result
    /\ UNCHANGED <<generation, reparse_root, doc, pre>>
    /\ UNCHANGED app_vars

StepFor ==
    /\ pc.at = "for"
    /\ \E n \in {step_for(Locals, pc, doc, reparse_root)} : Goes(n)

StepCall ==
    /\ pc.at = "call"
    /\ \E n \in {step_call(Locals, pc, doc)} : Goes(n)

StepWhile ==
    /\ pc.at = "while"
    /\ \E n \in {step_while(Locals, pc, doc)} : Goes(n)

StepReturn ==
    /\ pc.at = "return"
    /\ \E n \in {step_return(Locals, pc, doc)} : Goes(n)

StepClimb ==
    /\ pc.at = "climb"
    /\ \E n \in {step_climb(Locals, pc, reparse_root)} : Goes(n)

\* parse_entry is called on a page of the data-tid generation, for the whole
\* page or for the thread of its first comment
InitSteps ==
    /\ generation = "tid"
    /\ reparse_root \in {None, IdOf(1)}
    /\ doc \in StepPages(generation)
    /\ heap = <<>>
    /\ parsed = [x \in {} |-> 0]
    /\ roots = <<>>
    /\ threads = {}
    /\ err = "none"
    /\ sp = NotCalled
    /\ pre = StartLocals
    /\ result = NoResult
    /\ pc = [Idle EXCEPT !.at = "for", !.k = 1]
    /\ Offline

NextSteps == StepFor \/ StepCall \/ StepWhile \/ StepReturn \/ StepClimb

\* The interpreter executes the next statement of a running parse_entry:
\* the run is one sequential thread of control
SpecSteps == InitSteps /\ [][NextSteps]_vars /\ WF_vars(NextSteps)

\* ------------------------------------------------------------------------
\* _search_parent on its own: a flat sequence of sibling comments without
\* Parent links, indented by multiples of one step, and the resolution of
\* the parent of its last comment (kept in sp).

OutlineLen == 4

OutlineDepth == 3

\* the indentations of a template whose step is s, down to OutlineDepth levels
OutlineIndents(s) == {level * s : level \in 0..OutlineDepth}

\* one more comment follows on the page, a live one without Parent link;
\* _search_parent is applied to it
ResolveOutline ==
    /\ Len(doc) < OutlineLen
    /\ \E s \in {IndentStepOld, IndentStepNew} :
       \E style \in OutlineIndents(s) :
       \E d \in {Append(doc, Tag(generation, IdOf(Len(doc) + 1),
                                 <<FALSE, FALSE>>, <<>>, style))} :
          /\ \A j \in 1..Len(d) : d[j].style \in OutlineIndents(s)
          /\ doc' = d
          /\ sp' = search_parent(d, Len(d))
          /\ UNCHANGED <<generation, reparse_root, heap, parsed, roots,
                         threads, err, pre, pc, result>>
          /\ UNCHANGED app_vars

InitOutline == Init /\ reparse_root = None

NextOutline == ResolveOutline

SpecOutline == InitOutline /\ [][NextOutline]_vars

\* ------------------------------------------------------------------------
\* What the properties read

\* The fragment walked last, and its position
K == Len(doc)

Last == doc[K]

\* The id the walk derives for a fragment (lines 106-119); <<>> for a hidden
\* group and for a fragment of neither id scheme
FragId(f) ==
    IF f.tid # None THEN Drop(f.tid, 1)
    ELSE IF f.idattr # None THEN Drop(f.idattr, 5)
    ELSE <<>>

IsLive(f) == FragId(f) # <<>> /\ ~f.deleted /\ ~f.zipped

IsZipped(f) == FragId(f) # <<>> /\ ~f.deleted /\ f.zipped

IsDeleted(f) == FragId(f) # <<>> /\ f.deleted

\* The object constructed for the last fragment
New == Len(heap)

Constructed == K > 0 /\ Len(heap) = Len(pre.heap) + 1 /\ heap[New].frag = K

InRoots(h) == \E i \in 1..Len(roots) : roots[i] = h

InChildren(h) ==
    \E x \in 1..Len(heap) :
        \E i \in 1..Len(heap[x].children) : heap[x].children[i] = h

\* The objects on the parent chain that starts at object p
RECURSIVE Chain(_, _)
Chain(hp, p) == IF p = 0 THEN {} ELSE {p} \cup Chain(hp, hp[p].parent)

Topmost(hp, p) == CHOOSE a \in Chain(hp, p) : hp[a].parent = 0

\* The last fragment is zipped and its parent resolved to a comment
\* constructed before it
ZippedUnder ==
    /\ K > 0
    /\ IsZipped(Last)
    /\ sp.err = "none"
    /\ Truthy(sp.val)
    /\ sp.val \in DOMAIN pre.parsed

ZipParent == pre.parsed[sp.val]

AncestorMarked ==
    \E a \in Chain(pre.heap, ZipParent) : pre.heap[a].id \in pre.threads

\* Number of comments in the trees below the objects of seq
RECURSIVE TreeSize(_, _)
TreeSize(hp, seq) ==
    IF seq = <<>> THEN 0
    ELSE 1 + TreeSize(hp, hp[Head(seq)].children) + TreeSize(hp, Tail(seq))

\* ------------------------------------------------------------------------
\* C1: in the result of every successful parse_entry, no top-level comment
\* has an id that is in the returned thread-id set.
C1_RootsExcludeThreads ==
    err = "none" =>
        \A i \in 1..Len(result.comments) :
            heap[result.comments[i]].id \notin result.threads

\* A successful parse from which a root was elided
C1_Witness ==
    /\ err = "none"
    /\ \E i \in 1..Len(roots) : heap[roots[i]].id \in result.threads
    /\ Len(result.comments) < Len(roots)

\* C2: without a reparse-root, a zipped fragment whose parent resolves and
\* none of whose ancestors is marked adds the id of the topmost ancestor of
\* its parent chain, a parentless comment of the root list, to the thread-id
\* set; and no zipped comment is ever in the root list or among children.
C2_ZippedMarksTopmost ==
    /\ \A h \in 1..Len(heap) : heap[h].zip => ~InRoots(h) /\ ~InChildren(h)
    /\ (ZippedUnder /\ reparse_root = None /\ ~AncestorMarked) =>
        LET top == Topmost(pre.heap, ZipParent) IN
        /\ err = "none"
        /\ heap[top].id \notin pre.threads
        /\ threads = pre.threads \cup {heap[top].id}
        /\ heap[top].parent = 0
        /\ InRoots(top)
        /\ Constructed /\ heap[New].zip /\ heap[New].parent = ZipParent

\* The zipped fragment is at least two levels below the thread root
C2_Witness ==
    /\ ZippedUnder /\ reparse_root = None /\ ~AncestorMarked
    /\ Topmost(pre.heap, ZipParent) # ZipParent
    /\ heap[Topmost(pre.heap, ZipParent)].id \in threads

\* C3: a page of N live comment fragments (none zipped, none deleted) that
\* parses returns trees with N comments in all.
C3_RoundTripShape ==
    (err = "none" /\ \A j \in 1..K : IsLive(doc[j])) =>
        TreeSize(heap, result.comments) = K

\* A page of MaxLen live comments, nested
C3_Witness ==
    /\ err = "none"
    /\ K = MaxLen
    /\ \A j \in 1..K : IsLive(doc[j])
    /\ Len(result.comments) = 1
    /\ \E h \in 1..Len(heap) : heap[h].parent # 0 /\ heap[heap[h].parent].parent # 0

\* The upward walk of the last (zipped) fragment ends, unmarked, at the
\* root whose id is the reparse-root
WalkEndsAtReparseRoot ==
    /\ ZippedUnder
    /\ Truthy(reparse_root)
    /\ ~AncestorMarked
    /\ pre.heap[Topmost(pre.heap, ZipParent)].id = reparse_root

\* C4 as claimed: when the upward walk of a zipped fragment ends at the
\* reparse-root R, the id added is the id of its immediate parent, and R is
\* not put into the thread-id set.
C4_AsClaimed ==
    WalkEndsAtReparseRoot =>
        /\ err = "none"
        /\ threads = pre.threads \cup {sp.val}
        /\ reparse_root \notin threads

\* C4, amended: when the upward walk of a zipped fragment ends at the
\* reparse-root R, the id added is the id of its immediate parent; R itself
\* enters the thread-id set exactly when that immediate parent is R.
C4_NarrowsToParent ==
    WalkEndsAtReparseRoot =>
        /\ err = "none"
        /\ threads = pre.threads \cup {sp.val}
        /\ pre.heap[ZipParent].id = sp.val
        /\ (reparse_root \in threads <=> sp.val = reparse_root)

\* The zipped fragment is a grandchild of R: the id added is not R
C4_Witness ==
    /\ WalkEndsAtReparseRoot
    /\ sp.val # reparse_root
    /\ sp.val \in threads
    /\ sp.val \notin pre.threads
    /\ reparse_root \notin threads

\* C5: a zipped fragment whose walk up the parent chain meets an id that is
\* already in the thread-id set raises nothing and leaves the thread-id set
\* (a set: each id is in it once) and the root list as they were.
C5_IdempotentMarking ==
    (ZippedUnder /\ AncestorMarked) =>
        /\ err = "none"
        /\ threads = pre.threads
        /\ roots = pre.roots
        /\ Cardinality(threads) = Cardinality(pre.threads)

\* A second zipped fragment under a thread root that is already marked
C5_Witness ==
    /\ ZippedUnder /\ AncestorMarked
    /\ LET top == Topmost(pre.heap, ZipParent) IN
        /\ InRoots(top)
        /\ heap[top].id \in pre.threads
        /\ \E z \in 1..Len(pre.heap) :
            pre.heap[z].zip /\ top \in Chain(pre.heap, pre.heap[z].parent)

\* The parent hint of a fragment says it is not a top-level comment
NotTopLevel(f) ==
    \/ f.style # NoMargin /\ f.style > 0
    \/ Len(f.links) = 1 /\ Drop(f.links[1], 1) # <<>>

LinkId(f) == IF Len(f.links) = 1 THEN Drop(f.links[1], 1) ELSE <<>>

\* _search_parent ran for the last fragment and was left to the indentation
\* tier, with an indentation above 0
IndentTier ==
    /\ K > 0
    /\ sp.err # "notcalled"
    /\ Len(Last.links) <= 1
    /\ LinkId(Last) = <<>>
    /\ Last.style # NoMargin
    /\ Last.style > 0

\* The preceding comment-siblings of the last fragment
Siblings == {j \in 1..(K - 1) : is_comment(doc[j])}

\* ... those not indented deeper than it
NotDeeper == {j \in Siblings : doc[j].style <= Last.style}

Exhausted == NotDeeper = {}

\* The sibling the scan stops at: the nearest that is not indented deeper
StopAt == CHOOSE j \in NotDeeper : \A i \in NotDeeper : i <= j

Delta == Last.style - doc[StopAt].style

\* C7: parent resolution fails with SnowflakeError, returning no parent id,
\* whenever the indentation tier exhausts the preceding comment-siblings
\* without finding one that is not indented deeper, or stops at a sibling
\* whose indentation delta is not 0, 25 or 30.
C7_AsClaimed ==
    (IndentTier /\ (Exhausted \/ Delta \notin {0, IndentStepOld, IndentStepNew})) =>
        sp = Raise("SnowflakeError")

\* C8: when the resolved parent id of a live or deleted fragment is not in
\* the id map, parse_entry fails with SnowflakeError and the fragment is
\* neither rooted nor attached.
C8_AsClaimed ==
    (/\ K > 0
     /\ IsLive(Last) \/ IsDeleted(Last)
     /\ sp.err = "none"
     /\ Truthy(sp.val)
     /\ sp.val \notin DOMAIN parsed) =>
        /\ err = "SnowflakeError"
        /\ roots = pre.roots
        /\ ~InChildren(New)

\* C9: in the indentation tier, siblings indented deeper are skipped; the
\* first sibling of equal indentation makes the result that sibling's own
\* resolved parent; the first sibling indented exactly 25 or 30 less makes
\* the result that sibling's id. No link and indentation 0: no parent.
C9_AsClaimed ==
    /\ (K > 0 /\ sp.err # "notcalled" /\ Last.links = <<>> /\ Last.style = 0) =>
        sp = Ret(None)
    /\ (IndentTier /\ ~Exhausted /\ Delta = 0
            /\ Truthy(search_parent(doc, StopAt).val)) =>
        sp = search_parent(doc, StopAt)
    /\ (IndentTier /\ ~Exhausted /\ Delta \in {IndentStepOld, IndentStepNew}) =>
        sp = Ret(FragId(doc[StopAt]))

\* C10 as claimed: a fragment with exactly one Parent link resolves to the
\* id taken from the link's URL fragment, whatever its indentation and
\* siblings.
C10_AsClaimed ==
    (K > 0 /\ sp.err # "notcalled" /\ Len(Last.links) = 1) =>
        sp = Ret(Drop(Last.links[1], 1))

\* C10, amended: a fragment with exactly one Parent link whose URL fragment
\* has an id after its first character resolves to that id, whatever its
\* indentation and siblings; the indentation tier answers only when there
\* is no Parent link or the link gives an empty id.
C10_LinkTierFirst ==
    /\ (K > 0 /\ sp.err # "notcalled" /\ Len(Last.links) = 1
             /\ LinkId(Last) # <<>>) =>
        sp = Ret(LinkId(Last))
    /\ (K > 0 /\ sp.err = "none" /\ Truthy(sp.val) /\ sp.val # LinkId(Last)) =>
        IndentTier

\* A link that names another comment than the indentation does: by its
\* indentation the fragment is a reply to the second comment, its link
\* names the first
C10_Witness ==
    /\ K = 3
    /\ sp.err = "none"
    /\ Last.links = << <<"t">> \o IdOf(1) >>
    /\ sp.val = IdOf(1)
    /\ ~Last.zipped /\ ~Last.deleted
    /\ doc[1].style = 0 /\ doc[2].style = 0 /\ Last.style = 25
    /\ heap[New].parent = parsed[IdOf(1)]

\* ------------------------------------------------------------------------
\* C11: in every tree the parser builds no comment has its own id as the id
\* of its parent or of one of its children; when the parent a fragment
\* resolves to carries the fragment's own id, add_child (live and deleted
\* fragments) or set_parent (zipped fragments) raises, and the children list
\* and the parent reference of the comment stay as they were.

SelfParented == K > 0 /\ sp.err = "none" /\ Truthy(sp.val) /\ sp.val = FragId(Last)

C11_NoSelfReference ==
    /\ \A h \in 1..Len(heap) :
          /\ heap[h].parent # 0 => heap[heap[h].parent].id # heap[h].id
          /\ \A i \in 1..Len(heap[h].children) :
                heap[heap[h].children[i]].id # heap[h].id
    /\ SelfParented =>
          /\ err = "Exception"
          /\ Len(heap) = Len(pre.heap) + 1
          /\ SubSeq(heap, 1, Len(pre.heap)) = pre.heap
          /\ heap[New].children = <<>>
          /\ heap[New].parent = 0
          /\ roots = pre.roots

\* a live comment, a reply to an earlier comment already in the tree, whose
\* own Parent link names the comment itself
C11_Witness ==
    /\ SelfParented
    /\ IsLive(Last)
    /\ err = "Exception"
    /\ \E h \in 1..Len(pre.heap) : pre.heap[h].parent # 0

\* ------------------------------------------------------------------------
\* C12: after any sequence of fragments, no parent has two children with
\* the same identifier.

C12_AsClaimed ==
    \A h \in 1..Len(heap) :
       \A i, j \in 1..Len(heap[h].children) :
          heap[heap[h].children[i]].id = heap[heap[h].children[j]].id => i = j

\* ------------------------------------------------------------------------
\* C13: after any sequence of fragments, each constructed comment occurs in
\* the children list of at most one parent and at most once there, is never
\* both in the root list and in a children list, and when it is in the
\* children of X its parent reference is X.

\* the places <<x, i>> where comment object h is the i-th child of x
Places(h) ==
    {xi \in (1..Len(heap)) \X (1..Len(heap)) :
        /\ xi[2] <= Len(heap[xi[1]].children)
        /\ heap[xi[1]].children[xi[2]] = h}

C13_OneOwner ==
    \A h \in 1..Len(heap) :
       /\ Cardinality(Places(h)) <= 1
       /\ ~(InRoots(h) /\ Places(h) # {})
       /\ \A xi \in Places(h) : heap[h].parent = xi[1]

\* two comment objects with the same id, both children of one parent, while
\* a comment with that parent's id is a root
C13_Witness ==
    \E a, b \in 1..Len(heap) :
       /\ a # b
       /\ heap[a].id = heap[b].id
       /\ Places(a) # {}
       /\ Places(b) # {}
       /\ heap[a].parent = heap[b].parent
       /\ InRoots(heap[a].parent)

\* ------------------------------------------------------------------------
\* C14: the root sequence and every children sequence list their members in
\* the order in which the fragments occur in the document; processing a
\* fragment leaves every earlier member where it was and adds at most one
\* member, at the end.

Ordered(seq) ==
    \A i, j \in 1..Len(seq) : i < j => heap[seq[i]].frag < heap[seq[j]].frag

\* b is a, or a with one more member at the end
GrownFrom(a, b) ==
    /\ Len(b) \in {Len(a), Len(a) + 1}
    /\ SubSeq(b, 1, Len(a)) = a

C14_DocumentOrder ==
    /\ Ordered(roots)
    /\ Ordered(result.comments)
    /\ \A h \in 1..Len(heap) : Ordered(heap[h].children)
    /\ GrownFrom(pre.roots, roots)
    /\ \A h \in 1..Len(pre.heap) :
          GrownFrom(pre.heap[h].children, heap[h].children)

\* the last fragment became the second child of a comment
C14_Witness ==
    /\ err = "none"
    /\ \E h \in 1..Len(pre.heap) :
          /\ Len(pre.heap[h].children) = 1
          /\ heap[h].children = Append(pre.heap[h].children, New)

\* ------------------------------------------------------------------------
\* The request served, for the properties of the handlers

ByScrapeEntry == request.route = "/scrape_entry"

ByScrapeEntryList == request.route = "/scrape_entry_list"

Called(fn) == \E i \in 1..Len(calls) : calls[i].fn = fn

\* the handler came to its try block: the path gave an entry id and the
\* page was fetched
InTry ==
    /\ ByScrapeEntry
    /\ entry_id_from_path(request.url.path).err = "none"
    /\ request.fault # "fetch"

\* parse_entry raised
ParseRaised == InTry /\ err # "none"

\* store_entry was called and raised
StoreRaised == InTry /\ request.fault = "store" /\ Called("store_entry")

\* enqueue_entries was called with a link to enqueue and raised
EnqueueRaised ==
    /\ InTry
    /\ request.fault = "tasks"
    /\ \E i \in 1..Len(calls) :
          calls[i].fn = "enqueue_entries" /\ calls[i].links # <<>>

\* ------------------------------------------------------------------------
\* C15: if parse_entry raises for a document handled by scrape_entry,
\* store_entry is not called and no task is enqueued for that request:
\* nothing of the partially built tree is persisted.

C15_RejectedWhole ==
    ParseRaised =>
       /\ ~Called("store_entry")
       /\ ~Called("enqueue_entries")
       /\ db = pre_db
       /\ db = EmptyDb
       /\ queue = <<>>

\* parse_entry raised on the second fragment, after a root had been built,
\* on a page with a link to a next page
C15_Witness ==
    /\ ParseRaised
    /\ roots # <<>>
    /\ request.next_page # <<>>
    /\ request.fault = "none"

\* ------------------------------------------------------------------------
\* C16: when parsing, storing or enqueuing raises inside scrape_entry, the
\* handler writes one dead-letter record with the site, the entry id and
\* the URL of the request, lets no exception out and answers OK.

C16_DeadLetter ==
    (ParseRaised \/ StoreRaised \/ EnqueueRaised) =>
       /\ response = "OK"
       /\ Len(dead_letter) = 1
       /\ dead_letter[1].community = request.url.netloc
       /\ request.url.path = EntryPath(dead_letter[1].id)
       /\ dead_letter[1].url = request.url
       /\ calls[Len(calls)].fn = "enqueue_entry_dead_letter"

\* the comments were stored and the first thread task was refused
C16_Witness ==
    /\ EnqueueRaised
    /\ db.comments # EmptyDb.comments
    /\ Len(dead_letter) = 1
    /\ response = "OK"

\* ------------------------------------------------------------------------
\* C17: when parse_entry_list fails for a document handled by
\* scrape_entry_list, the handler catches the failure and records the URL
\* of the request in the dead-letter channel instead of letting the
\* exception out.

ListParseRaised ==
    /\ ByScrapeEntryList
    /\ request.fault # "fetch"
    /\ parse_entry_list(request.listing).err # "none"

C17_AsClaimed ==
    ListParseRaised =>
       /\ response = "OK"
       /\ \E i \in 1..Len(dead_letter) : dead_letter[i].url = request.url

\* ------------------------------------------------------------------------
\* C18: across any sequence of store_entry / store_comment calls, full or
\* comments-only, for the same comment id: once the stored document has a
\* parent reference that is not null, a later call that supplies no parent
\* (the comment is a root of the entry stored) leaves that reference as it
\* was.

CommentKey(h) == <<StoreCommunity, StoreEntryId, heap[h].id>>

\* the roots of the entry last stored whose documents had a parent before
ReStoredRoots ==
    {i \in 1..Len(result.comments) :
        /\ CommentKey(result.comments[i]) \in DOMAIN pre_db.comments
        /\ pre_db.comments[CommentKey(result.comments[i])].parent # None}

C18_AsClaimed ==
    Len(calls) > 0 =>
       \A i \in ReStoredRoots :
          db.comments[CommentKey(result.comments[i])].parent
             = pre_db.comments[CommentKey(result.comments[i])].parent

\* ------------------------------------------------------------------------
\* C19: enqueuing the same URL to the same queue any number of times creates
\* at most one task: the name of the task is a function of the URL (and
\* the epoch), and the Conflict a repeated enqueue meets is swallowed, with
\* no exception and no second task.

QueueOf(fn) == IF fn = "enqueue_entries" THEN EntriesQueue ELSE EntryListsQueue

\* how often the calls so far asked for this URL in this queue
RECURSIVE Asked(_, _, _)
Asked(cs, queue_name, url) ==
    IF cs = <<>> THEN 0
    ELSE Cardinality({i \in 1..Len(Head(cs).links) :
                         /\ QueueOf(Head(cs).fn) = queue_name
                         /\ Head(cs).links[i] = url})
         + Asked(Tail(cs), queue_name, url)

TasksFor(queue_name, url) ==
    {i \in 1..Len(queue) : queue[i].name.queue = queue_name /\ queue[i].body = url}

C19_OneTaskPerUrl ==
    /\ \A queue_name \in {EntriesQueue, EntryListsQueue}, url \in QueueUrls :
          Cardinality(TasksFor(queue_name, url))
             = IF Asked(calls, queue_name, url) > 0 THEN 1 ELSE 0
    /\ \A i, j \in 1..Len(queue) :
          queue[i].body = queue[j].body <=> queue[i].name.task = queue[j].name.task
    /\ calls # <<>> => response = "returned"

\* one URL asked for three times in one queue, in two calls
C19_Witness ==
    \E url \in QueueUrls :
       /\ Len(calls) = 2
       /\ Asked(calls, EntriesQueue, url) = 3
       /\ Cardinality(TasksFor(EntriesQueue, url)) = 1

\* ------------------------------------------------------------------------
\* C20: scrape_entry passes the value of the URL's thread query parameter
\* to parse_entry as reparse-root (None when there is none) and calls
\* store_entry with comments-only true exactly when the URL has a thread or
\* a page query parameter; with comments-only true the entry document is
\* not written.

\* the values of the fields of the query that have this key
RECURSIVE Fields(_, _)
Fields(query, key) ==
    IF query = <<>> THEN <<>>
    ELSE (IF Head(query)[1] = key THEN <<Head(query)[2]>> ELSE <<>>)
         \o Fields(Tail(query), key)

HasParam(key) == Fields(request.url.query, key) # <<>>

\* one of the fields with this key has a value that is not blank
HasValue(key) ==
    \E i \in 1..Len(Fields(request.url.query, key)) :
       Fields(request.url.query, key)[i] # <<>>

FirstValue(key) ==
    LET values == Fields(request.url.query, key)
        first == CHOOSE i \in 1..Len(values) :
                    values[i] # <<>> /\ \A j \in 1..(i - 1) : values[j] = <<>>
    IN values[first]

\* store_entry was called and returned
Stored == InTry /\ Called("store_entry") /\ request.fault # "store"

\* (a blank value passed on as None is taken as the value: parse_entry
\* treats the two alike)
C20_AsClaimed ==
    /\ InTry =>
          LET value == IF HasParam("thread")
                       THEN Fields(request.url.query, "thread")[1] ELSE None
          IN reparse_root = value \/ (~Truthy(reparse_root) /\ ~Truthy(value))
    /\ InTry /\ Called("store_entry") =>
          calls[1].comments_only = (HasParam("thread") \/ HasParam("page"))
    /\ Stored /\ calls[1].comments_only => db.entries = {}

\* as claimed, a parameter with a blank value counting as absent
C20_ByQueryValues ==
    /\ InTry =>
          reparse_root = IF HasValue("thread") THEN FirstValue("thread") ELSE None
    /\ InTry /\ Called("store_entry") =>
          /\ calls[1].fn = "store_entry"
          /\ calls[1].comments_only = (HasValue("thread") \/ HasValue("page"))
          /\ calls[1].community = request.url.netloc
          /\ request.url.path = EntryPath(calls[1].id)
    /\ Stored =>
          IF calls[1].comments_only THEN db.entries = {}
          ELSE db.entries = {<<calls[1].community, calls[1].id>>}

\* a second page of comments: two comments stored, the entry document not
C20_Witness ==
    /\ Stored
    /\ HasValue("page")
    /\ ~HasParam("thread")
    /\ calls[1].comments_only
    /\ \E x, y \in DOMAIN db.comments : x # y
    /\ db.entries = {}

\* ------------------------------------------------------------------------
\* The object constructed for fragment j
ObjOf(j) == CHOOSE h \in 1..Len(heap) : heap[h].frag = j

\* The last fragment is a live comment, not the reparse-root, that resolves
\* to the deleted fragment j: by its Parent link, or by following it one
\* indentation step deeper
RepliesToDeleted(j) ==
    /\ j \in 1..(K - 1)
    /\ IsDeleted(doc[j])
    /\ IsLive(Last)
    /\ FragId(Last) # reparse_root
    /\ \/ Len(Last.links) = 1 /\ LinkId(Last) = FragId(doc[j])
       \/ /\ Last.links = <<>>
          /\ j = K - 1
          /\ is_comment(doc[j])
          /\ Last.style # NoMargin
          /\ doc[j].style # NoMargin
          /\ Last.style - doc[j].style \in {IndentStepOld, IndentStepNew}

\* C21: a deleted fragment yields a tombstone (deleted, no content) that is
\* recorded in the id map and is appended to the children of its resolved
\* parent, or to the root list when it has none; and a following live
\* fragment that resolves to it, by Parent link or by being one indentation
\* step deeper, becomes its last child with the tombstone as its parent.
C21_TombstoneAdopts ==
    /\ (K > 0 /\ IsDeleted(Last) /\ err = "none") =>
          /\ Constructed
          /\ heap[New] = [dead(FragId(Last), K) EXCEPT !.parent = heap[New].parent]
          /\ parsed = Put(pre.parsed, FragId(Last), New)
          /\ IF Truthy(sp.val)
             THEN /\ heap[New].parent = pre.parsed[sp.val]
                  /\ heap[heap[New].parent].children =
                        Append(pre.heap[heap[New].parent].children, New)
                  /\ roots = pre.roots
             ELSE /\ heap[New].parent = 0
                  /\ roots = Append(pre.roots, New)
                  /\ ~InChildren(New)
    /\ \A j \in 1..(K - 1) :
          RepliesToDeleted(j) =>
             /\ err = "none"
             /\ Constructed
             /\ parsed[FragId(doc[j])] = ObjOf(j)
             /\ heap[ObjOf(j)].deleted
             /\ heap[New].parent = ObjOf(j)
             /\ heap[ObjOf(j)].children = Append(pre.heap[ObjOf(j)].children, New)
             /\ ~InRoots(New)

\* a rooted tombstone whose sole child is the live reply one step deeper
C21_Witness ==
    /\ K = 2
    /\ RepliesToDeleted(1)
    /\ Last.links = <<>>
    /\ roots = <<ObjOf(1)>>
    /\ heap[ObjOf(1)].deleted
    /\ heap[ObjOf(1)].children = <<New>>
    /\ heap[New].parent = ObjOf(1)
    /\ ~heap[New].deleted

\* ------------------------------------------------------------------------
\* C22: a document in which neither comment-fragment selector matches
\* anything parses without error to an entry with an empty comment list and
\* an empty thread-id set (and so scrape_entry stores no comment and enqueues
\* no thread).
C22_EmptyPage ==
    (InTry /\ doc = <<>>) =>
        /\ err = "none"
        /\ result = [comments |-> <<>>, threads |-> {}]
        /\ heap = <<>>
        /\ Called("store_entry")
        /\ calls[1].comments = <<>>
        /\ request.fault # "store" =>
              /\ calls[2] = EnqueueCall("enqueue_entries", <<>>)
              /\ DOMAIN db.comments = {}
        /\ request.fault = "none" => dead_letter = <<>>

\* an entry without comments was fetched and stored
C22_Witness ==
    /\ InTry
    /\ doc = <<>>
    /\ request.fault = "none"
    /\ request.url.query = <<>>
    /\ response = "OK"
    /\ db.entries # {}
    /\ result = NoResult

\* ------------------------------------------------------------------------
\* scrape_entry_list fetched the listing and called parse_entry_list
ListParsed == ByScrapeEntryList /\ request.fault # "fetch"

\* the first label of the listing's own URL
SelfLabel ==
    IF request.listing.self = <<>> THEN "" ELSE Head(request.listing.self)

\* the four variants: network-location label and adapter class
FourVariants ==
    {<<"ftm", "FTM">>, <<"mtf", "MTF">>, <<"genderqueer", "Genderqueer">>,
     <<"transgender", "Transgender">>}

\* C23: adapter selection over the fixed four-variant registry returns the
\* adapter whose network-location label equals the first label of the
\* document's self URL; for any other label it fails with the
\* unknown-community SnowflakeError, and no default adapter is returned.
C23_AdapterByLabel ==
    ListParsed =>
        LET community == find_community(request.listing.self) IN
        IF \E v \in FourVariants : v[1] = SelfLabel
        THEN /\ community.err = "none"
             /\ <<community.val.netloc, community.val.class>> \in FourVariants
             /\ community.val.netloc = SelfLabel
             /\ response # "SnowflakeError"
             /\ calls # <<>>
             /\ Len(calls[1].links) = Cardinality(request.listing.entries)
             /\ \A i \in 1..Len(calls[1].links) :
                   /\ Head(calls[1].links[i].netloc) = SelfLabel
                   /\ calls[1].links[i].query # <<>> <=>
                         SelfLabel \in {"genderqueer", "transgender"}
        ELSE /\ community = Raise("SnowflakeError")
             /\ response = "SnowflakeError"
             /\ calls = <<>>
             /\ queue = <<>>

\* a listing of the fourth community: its entry links are enqueued
C23_Witness ==
    /\ ListParsed
    /\ SelfLabel = "transgender"
    /\ response = "OK"
    /\ Len(calls[1].links) = 2
    /\ Len(queue) >= 2
    /\ \A i \in 1..2 : queue[i].body.netloc = <<"transgender", "livejournal", "com">>

\* ------------------------------------------------------------------------
\* parse_entry_list returned to scrape_entry_list
ListReturned == ListParsed /\ parse_entry_list(request.listing).err = "none"

PrevLink == request.listing.prev

EntryListTasks == {i \in 1..Len(queue) : queue[i].name.queue = EntryListsQueue}

EntryTasks == {i \in 1..Len(queue) : queue[i].name.queue = EntriesQueue}

\* The handler enqueued the entry links and nothing else, and answered OK
\* unless Cloud Tasks failed it
OnlyEntriesEnqueued ==
    /\ Len(calls) = 1
    /\ calls[1].fn = "enqueue_entries"
    /\ {calls[1].links[i] : i \in 1..Len(calls[1].links)}
          = parse_entry_list(request.listing).entry_links
    /\ EntryListTasks = {}
    /\ dead_letter = <<>>
    /\ request.fault = "none" =>
          /\ response = "OK"
          /\ {queue[i].body : i \in EntryTasks}
                = parse_entry_list(request.listing).entry_links

\* The handler enqueued the entry links and then the previous page
PrevPageEnqueued ==
    /\ response = "OK"
    /\ Len(calls) = 2
    /\ calls[1].fn = "enqueue_entries"
    /\ calls[2] = EnqueueCall("enqueue_entry_list", PrevLink)
    /\ Cardinality(EntryListTasks) = 1
    /\ \A i \in EntryListTasks :
          /\ queue[i].body = PrevLink[1]
          /\ queue[i].handler = "/scrape_entry_list"
          /\ \A j \in EntryTasks : j < i

\* C24 as claimed: in scrape_entry_list a missing previous-page link is not
\* an error (the entry links are enqueued, no entry-list task is, the answer
\* is OK), and a previous-page task is enqueued exactly when the parse
\* result carries a previous link.
C24_AsClaimed ==
    /\ (ListReturned /\ PrevLink = <<>>) => OnlyEntriesEnqueued
    /\ (ListReturned /\ request.fault = "none") =>
          (EntryListTasks # {} <=> PrevLink # <<>>)

\* as claimed, for a previous link that is not the empty string: without
\* one only the entry links are enqueued and the walk back through the
\* archive ends; with one, one task for exactly that page follows them.
C24_NonEmptyLink ==
    /\ (ListReturned /\ ~(PrevLink # <<>> /\ PrevLink[1] # EmptyHref)) =>
          OnlyEntriesEnqueued
    /\ (ListReturned /\ request.fault = "none") =>
          /\ EntryListTasks # {} <=> (PrevLink # <<>> /\ PrevLink[1] # EmptyHref)
          /\ EntryListTasks # {} => PrevPageEnqueued

\* the oldest page: two entries enqueued, no task for a previous page
C24_Witness ==
    /\ ListReturned
    /\ PrevLink = <<>>
    /\ request.fault = "none"
    /\ response = "OK"
    /\ Cardinality(EntryTasks) = 2
    /\ EntryListTasks = {}
    /\ Len(calls) = 1

\* ------------------------------------------------------------------------
\* parse_entry is over: it returned, or it raised
Halted == pc.at \in {"returned", "raised"}

\* the innermost active call of _search_parent
Top(stack) == stack[Len(stack)]

\* The loop of _parse_entry_comments comes to its head once per fragment, in
\* document order
EachFragmentOnce ==
    /\ pc.k <= Len(doc) + 1
    /\ IF pc'.at = "for" THEN pc'.k = pc.k + 1 ELSE pc'.k = pc.k

\* _search_parent calls itself on a comment-sibling that comes strictly
\* earlier in the document
RecursionGoesBack ==
    Len(pc'.stack) > Len(pc.stack) =>
        /\ pc'.stack = Append(pc.stack, Top(pc'.stack))
        /\ pc.stack # <<>> =>
              /\ Top(pc'.stack) < Top(pc.stack)
              /\ is_comment(doc[Top(pc'.stack)])

\* A turn of the skip loop takes one sibling off the finite list
SkipConsumes ==
    (pc.at = "while" /\ pc'.at = "while") =>
        /\ Len(pc'.previous_siblings) = Len(pc.previous_siblings) - 1
        /\ pc'.previous < pc.previous

\* A turn of the upward loop moves to the parent, a comment constructed
\* earlier
ClimbGoesUp ==
    (pc.at = "climb" /\ pc'.at = "climb") =>
        /\ pc'.parent = heap[pc.parent].parent
        /\ pc'.parent \in 1..(pc.parent - 1)

\* The run ends with the locals the walk over the whole page defines
EndsAsWalked == Halted => Locals = parse_entry_comments(doc, reparse_root)

\* C25: parse_entry terminates on every finite document; the fragment walk
\* visits each fragment once, each recursive parent resolution is applied to
\* a strictly earlier sibling, the skip loop consumes a finite sibling list,
\* and the zipped upward walk follows a finite parent chain.
C25_Terminates ==
    /\ <>Halted
    /\ [][EachFragmentOnce /\ RecursionGoesBack /\ SkipConsumes /\ ClimbGoesUp]_vars

\* a page of three comments is parsed to the end: the third, zipped and as
\* deep as the second, made the resolution recurse and the upward loop turn,
\* and the run ended with the locals the walk defines
C25_Witness ==
    /\ pc.at = "returned"
    /\ Len(doc) = StepLen
    /\ \A k \in 1..Len(doc) : doc[k].links = <<>>
    /\ doc[1].style = 0
    /\ doc[2].style = doc[3].style
    /\ doc[2].style > 0
    /\ doc[3].zipped /\ ~doc[3].deleted
    /\ heap[3].parent = 1
    /\ threads = {heap[1].id}
    /\ EndsAsWalked

\* ------------------------------------------------------------------------
\* scrape_entry went through its try block without an exception
Succeeded == InTry /\ ~Called("enqueue_entry_dead_letter")

\* urljoin(url, '?thread=<id>'): the source URL with that query and without
\* its fragment
ThreadUrlOf(id) ==
    [netloc |-> request.url.netloc, path |-> request.url.path,
     query |-> << <<"thread", id>> >>, fragment |-> <<>>]

\* store_entry is called once, first; the second call is enqueue_entries
\* with one thread URL per id of the thread-id set
StoredThenThreads ==
    /\ Len(calls) >= 2
    /\ calls[1].fn = "store_entry"
    /\ \A i \in 2..Len(calls) : calls[i].fn = "enqueue_entries"
    /\ Len(calls[2].links) = Cardinality(result.threads)
    /\ {calls[2].links[i] : i \in 1..Len(calls[2].links)}
          = {ThreadUrlOf(id) : id \in result.threads}
    /\ db # pre_db \/ (result.comments = <<>> /\ calls[1].comments_only)

\* the tasks created are those of the calls, in the order of the calls
TasksAsCalled ==
    request.fault = "none" =>
        [i \in 1..Len(queue) |-> queue[i].body]
           = calls[2].links \o (IF Len(calls) = 3 THEN calls[3].links ELSE <<>>)

\* C26 as claimed: on a successful scrape_entry, store_entry is called
\* exactly once and before any task is enqueued; then one enqueue call
\* carries exactly one '?thread=<id>' URL per id in the thread-id set; then
\* the next-comments-page URL is enqueued if and only if the document
\* contained a next-page link, and it is exactly that link.
C26_AsClaimed ==
    Succeeded =>
        /\ StoredThenThreads
        /\ TasksAsCalled
        /\ Len(calls) = 3 <=> request.next_page # <<>>
        /\ Len(calls) = 3 => calls[3].links = request.next_page

\* as claimed, for a next-page link that is not the empty string
C26_NonEmptyLink ==
    Succeeded =>
        /\ StoredThenThreads
        /\ TasksAsCalled
        /\ Len(calls) = 3 <=>
              (request.next_page # <<>> /\ request.next_page[1] # EmptyHref)
        /\ Len(calls) = 3 => calls[3].links = request.next_page

\* two collapsed threads and a second page of comments: three tasks follow
\* the store
C26_Witness ==
    /\ Succeeded
    /\ request.fault = "none"
    /\ Cardinality(result.threads) = 2
    /\ Len(calls) = 3
    /\ Len(queue) = 3
    /\ queue[3].body = request.next_page[1]
    /\ db.entries # {}

\* ------------------------------------------------------------------------
\* The last fragment uses the data-tid scheme and its id is empty
HiddenGroup == K > 0 /\ Last.tid # None /\ Drop(Last.tid, 1) = <<>>

\* C27: a fragment using the thread id scheme with an empty id (a hidden
\* collapsed group) constructs no comment, changes neither the id map nor
\* the root list, and adds exactly the data-parent id of its first see-more
\* element to the thread-id set; without such an element the parse fails
\* with SnowflakeError.
C27_HiddenGroup ==
    HiddenGroup =>
        /\ heap = pre.heap
        /\ parsed = pre.parsed
        /\ roots = pre.roots
        /\ sp = NotCalled
        /\ IF Last.seemore # <<>>
           THEN /\ err = "none"
                /\ threads = pre.threads \cup {Last.seemore[1]}
                /\ result.threads = threads
           ELSE /\ err = "SnowflakeError"
                /\ threads = pre.threads
                /\ result = NoResult

\* a hidden group after two comments adds the id of the first of them, the
\* data-parent of its first see-more element, and not that of its second
C27_Witness ==
    /\ HiddenGroup
    /\ K = 3
    /\ Len(Last.seemore) = 2
    /\ Len(heap) = 2
    /\ err = "none"
    /\ pre.threads = {}
    /\ threads = {Last.seemore[1]}
    /\ Last.seemore[1] = heap[1].id
    /\ Last.seemore[2] \notin threads

\* ------------------------------------------------------------------------
\* The objects of the trees below the objects of seq, through children
RECURSIVE Tree(_, _)
Tree(hp, seq) ==
    IF seq = <<>> THEN {}
    ELSE {Head(seq)} \cup Tree(hp, hp[Head(seq)].children)
                     \cup Tree(hp, Tail(seq))

\* The comment itself or one of its ancestors along the parent references
\* has its id in the returned thread-id set
Scheduled(h) == \E a \in Chain(heap, h) : heap[a].id \in result.threads

\* C28: at the end of every successful parse, each live or deleted comment
\* that was constructed is reachable from the returned root sequence through
\* children lists, or has itself or an ancestor along parent references
\* whose id is in the returned thread-id set.
C28_KeptOrScheduled ==
    err = "none" =>
        \A h \in 1..Len(heap) :
            ~heap[h].zip =>
                h \in Tree(heap, result.comments) \/ Scheduled(h)

\* a live reply to a zipped comment is not below any returned root; the
\* root above the zipped comment is in the returned thread-id set
C28_Witness ==
    /\ err = "none"
    /\ Len(doc) = 3
    /\ Len(heap) = 3
    /\ heap[2].zip
    /\ heap[3].content
    /\ heap[3].parent = 2
    /\ 3 \notin Tree(heap, result.comments)
    /\ Scheduled(3)
    /\ result.threads = {heap[1].id}

\* ------------------------------------------------------------------------
\* C29: whenever a comment's parent reference is set during the walk, the
\* parent is a different comment that was constructed for a strictly
\* earlier fragment; so the parent references never form a cycle, and
\* following them from any comment reaches a parentless comment in finitely
\* many steps.
C29_ParentIsEarlier ==
    /\ \A h \in 1..Len(heap) :
          heap[h].parent # 0 =>
             /\ heap[h].parent \in 1..Len(heap)
             /\ heap[h].parent # h
             /\ heap[heap[h].parent].frag < heap[h].frag
    /\ \A h \in 1..Len(heap) :
          \E chain \in {Chain(heap, h)} :
             /\ \E a \in chain : heap[a].parent = 0
             /\ Cardinality(chain) <= heap[h].frag
    /\ \A h \in 1..Len(pre.heap) :
          pre.heap[h].parent # 0 => heap[h].parent = pre.heap[h].parent

\* a chain of three comments: the third under the second under the first
C29_Witness ==
    /\ err = "none"
    /\ Len(heap) = 3
    /\ heap[3].parent = 2
    /\ heap[2].parent = 1
    /\ heap[1].parent = 0
    /\ Chain(heap, 3) = {1, 2, 3}
    /\ heap[3].frag = 3 /\ heap[2].frag = 2 /\ heap[1].frag = 1

\* ------------------------------------------------------------------------
\* The step the indentations of the page are multiples of
OutlineStep ==
    CHOOSE s \in {IndentStepOld, IndentStepNew} :
        \A j \in 1..K : \E level \in 0..OutlineDepth : doc[j].style = level * s

\* The preceding fragments that are indented less than the last
Shallower == {j \in 1..(K - 1) : doc[j].style < Last.style}

\* The parent of the last fragment in the outline the indentations draw:
\* the nearest preceding fragment that is indented less
OutlineParent == CHOOSE j \in Shallower : \A i \in Shallower : i <= j

\* C30: for a flat sequence of sibling comment fragments with no Parent
\* links and indentations that are multiples of one step (25 or 30), the
\* indentation tier, for a fragment with non-zero indentation, returns the
\* id of the nearest preceding fragment whose indentation is strictly
\* smaller, provided that indentation is exactly one step smaller, and
\* fails otherwise: the parent in the outline of the indentations.
C30_OutlineParent ==
    (K > 0 /\ Last.style > 0) =>
        IF Shallower # {} /\ doc[OutlineParent].style = Last.style - OutlineStep
        THEN sp = Ret(FragId(doc[OutlineParent]))
        ELSE sp.err \in {"SnowflakeError", "IndexError"} /\ sp.val = None

\* the fourth comment is as deep as the second, after a deeper third: the
\* scan skips the third, recurses into the second and returns the first
C30_Witness ==
    /\ K = 4
    /\ doc[1].style = 0
    /\ doc[2].style = IndentStepNew
    /\ doc[3].style = 2 * IndentStepNew
    /\ doc[4].style = IndentStepNew
    /\ OutlineParent = 1
    /\ sp = Ret(IdOf(1))

\* ------------------------------------------------------------------------
\* C31: if scrape_entry handles a '?thread=<id>' URL and the thread-id set
\* of the parse contains that same id, nothing is stored, no task is
\* enqueued and one dead-letter record is written; a thread fetch therefore
\* never enqueues its own thread URL again.

\* qs['thread'] of the request's URL
ThreadOfRequest == parse_qs(request.url.query, "thread")

\* the request is a thread fetch
ThreadFetch == ByScrapeEntry /\ ThreadOfRequest # <<>>

\* parse_entry returned, and its thread-id set holds the id of the URL
ZippedAgain ==
    /\ InTry
    /\ ThreadOfRequest # <<>>
    /\ err = "none"
    /\ ThreadOfRequest[1] \in result.threads

\* no task carries the URL of the request, nor '?thread=<id>' for its id
OwnThreadNotEnqueued ==
    \A i \in 1..Len(queue) :
        /\ queue[i].body # request.url
        /\ queue[i].body # ThreadUrlOf(ThreadOfRequest[1])

C31_ZippedAgain ==
    /\ ZippedAgain =>
          /\ ~Called("store_entry")
          /\ ~Called("enqueue_entries")
          /\ db = EmptyDb
          /\ queue = <<>>
          /\ response = "OK"
          /\ calls = <<DeadLetterCall(request.url.netloc,
                                      entry_id_from_path(request.url.path).val,
                                      request.url)>>
          /\ Len(dead_letter) = 1
          /\ dead_letter[1].url = request.url
    /\ ThreadFetch => OwnThreadNotEnqueued

\* the thread page of the first comment, whose reply is collapsed: the
\* narrowing to the immediate parent gives the id of the URL again, on a
\* page with a link to a next page and with every service reachable
C31_Witness ==
    /\ ZippedAgain
    /\ request.fault = "none"
    /\ request.next_page # <<>>
    /\ ThreadOfRequest[1] = IdOf(1)
    /\ Len(roots) = 1
    /\ Len(doc) = 2
    /\ Len(dead_letter) = 1

\* a thread fetch that enqueued the thread of another root of its page
C31_WitnessOther ==
    /\ ThreadFetch
    /\ ~ZippedAgain
    /\ \E i \in 1..Len(queue) :
          queue[i].body.query # <<>> /\ queue[i].body.query[1][1] = "thread"

\* ------------------------------------------------------------------------
\* C32: when two scrape_entry handlers run at the same time and store the
\* same comment id, one supplying the parent P and the other, comments-only,
\* supplying no parent, the stored parent reference of that comment ends as
\* P in every interleaving of their reads and writes.

\* handler a stores the comment id under a parent, handler b stores it
\* comments-only as a root, and both have returned
StoredByBoth(a, i, b, j) ==
    /\ a # b
    /\ running[a].at = "done"
    /\ running[b].at = "done"
    /\ running[a].todo[i].id = running[b].todo[j].id
    /\ running[a].todo[i].parent # None
    /\ running[b].comments_only
    /\ running[b].todo[j].parent = None

C32_AsClaimed ==
    \A a, b \in 1..Len(running) :
       \A i \in 1..Len(running[a].todo), j \in 1..Len(running[b].todo) :
          StoredByBoth(a, i, b, j) =>
             db.comments[comment_document(running[a].todo[i].id)].parent
                = running[a].todo[i].parent

====
